---- MODULE Spec2Model ----
(***************************************************************************)
(* A model of the tube-sorting colour puzzle: the pour engine              *)
(* (utils/game-logic.ts), the breadth-first solver (utils/solver.ts) and   *)
(* the game session controller (contexts/game-context.tsx).                *)
(*                                                                         *)
(* A ColorSegment is a record [color, id]; a Tube is a record              *)
(* [id, segments, capacity, locked, unlockCondition] whose segments are a  *)
(* sequence, bottom first; a board is a sequence of tubes.                 *)
(***************************************************************************)
EXTENDS Integers, Sequences, FiniteSets, TLC

VARIABLES
    board,          \* pour engine harness: the Tube[] handed to the engine
    fromTubeId,     \* pour engine harness: the fromTubeId argument
    toTubeId,       \* pour engine harness: the toTubeId argument
    canPourResult,  \* pour engine harness: what canPour returned
    pourResult,     \* pour engine harness: what executePour returned
    argAfter,       \* pour engine harness: the Tube[] argument after the call
    completeResult, \* pour engine harness: what isLevelComplete returned
    phase,          \* both harnesses: "input" or the function called
    solveBound,     \* solver harness: options.maxIterations
    solveResult,    \* solver harness: what findOptimalSolution returned
    starsArgs,      \* scoring harness: the arguments of calculateStars
    starsResult,    \* scoring harness: what calculateStars returned
    genArgs,        \* level harness: the level id and the draw of Math.random
    genLevel,       \* level harness: what generateLevel returned
    LEVELS,         \* session: the level templates (level-data.ts LEVELS)
    gameState,      \* session: the GameState of GameProvider
    moveHistory,    \* session: the undo history, oldest snapshot first
    redoHistory,    \* session: the redo history
    initialTubesRef,    \* session: initialTubesRef.current
    solverCacheRef,     \* session: solverCacheRef.current, a set of <<key, result>>
    solverTimeoutRef,   \* session: the pending par computation, if any
    starts,             \* session: how many times startLevel ran (model bound)
    pendingHints        \* session: the requestHint computations not yet run

\* What the pour engine harness writes besides board and phase.
pourVars == <<fromTubeId, toTubeId, canPourResult, pourResult, argAfter,
              completeResult>>

\* What the solver harness writes besides board and phase.
solverVars == <<solveBound, solveResult>>

\* What the scoring harness writes besides phase.
starVars == <<starsArgs, starsResult>>

\* What the level harness writes besides phase.
levelVars == <<genArgs, genLevel>>

\* What the session controller writes.
sessionVars == <<LEVELS, gameState, moveHistory, redoHistory, initialTubesRef,
                 solverCacheRef, solverTimeoutRef, starts, pendingHints>>

vars == <<board, phase, pourVars, solverVars, starVars, levelVars, sessionVars>>

----------------------------------------------------------------------------
(* Bounds of the model.                                                    *)

\* Largest tube capacity of the boards handed to the pour engine.
MaxCap == 2

\* The tubes (by index) of the boards handed to the pour engine.
PourTubes == 1..3

\* The colours (opaque tokens) segments are drawn from.
Colors == {"red", "blue"}

\* The tubes (by index) of the boards handed to the solver.
SolverTubes == 1..3

\* The tube capacities of the boards handed to the solver.
SolverCapacities == 1..3

\* Largest number of segments on a board handed to the solver.
SolverMaxSegments == 4

\* The small iteration bound the solver is also run with.
SmallIterations == 3

\* Most successful pours of one level attempt the session model follows.
MaxMoves == 3

\* Largest coin balance the session model follows.
MaxCoins == 20

\* The coin balance the browser's storage may hold when the provider mounts.
SavedCoins == 10

\* Most hint computations waiting for their timer at one time.
MaxPendingHints == 2

\* The largest move or time cap of a star threshold in the scoring harness.
MaxStarCap == 1

\* How many values of Math.random the level harness draws from: k / ShuffleDraws
\* for k below ShuffleDraws.
ShuffleDraws == 4

\* Most level starts and resets of one run of the session model.
MaxStarts == 2

----------------------------------------------------------------------------
(* Values standing for JavaScript's undefined / null.                      *)

NoMessage == "undefined"
NoCondition == [type |-> "none", requirement |-> 0]
NoTubeId == <<>>

\* An id no tube of a board carries.
AbsentTubeId == <<0, 0>>

Min(a, b) == IF a <= b THEN a ELSE b
Max(a, b) == IF a >= b THEN a ELSE b

\* Array.prototype.slice(start, end) on a sequence (0-based, end exclusive,
\* negative indices counted from the end).
JsSlice(s, start, end) ==
    LET n == Len(s)
        a == IF start < 0 THEN Max(n + start, 0) ELSE Min(start, n)
        b == IF end < 0 THEN Max(n + end, 0) ELSE Min(end, n)
    IN  IF a >= b THEN <<>> ELSE SubSeq(s, a + 1, b)

\* Array.prototype.find on the tube list: the index of the first tube with
\* this id, 0 when there is none.
FindTube(tubes, tubeId) ==
    IF \E i \in 1..Len(tubes) : tubes[i].id = tubeId
    THEN CHOOSE i \in 1..Len(tubes) :
            /\ tubes[i].id = tubeId
            /\ \A j \in 1..(i - 1) : tubes[j].id # tubeId
    ELSE 0

----------------------------------------------------------------------------
(* The pour engine: PourSystem of utils/game-logic.ts.                     *)

\* canPour without the colour comparison.
canPourAnyColor(fromTube, toTube) ==
    IF Len(fromTube.segments) = 0
    THEN [canPour |-> FALSE, reason |-> "Source tube is empty"]
    ELSE IF Len(toTube.segments) >= toTube.capacity
    THEN [canPour |-> FALSE, reason |-> "Target tube is full"]
    ELSE IF fromTube.id = toTube.id
    THEN [canPour |-> FALSE, reason |-> "Cannot pour to same tube"]
    ELSE [canPour |-> TRUE, reason |-> NoMessage]

canPour(fromTube, toTube) ==
    IF Len(fromTube.segments) = 0
    THEN [canPour |-> FALSE, reason |-> "Source tube is empty"]
    ELSE IF Len(toTube.segments) >= toTube.capacity
    THEN [canPour |-> FALSE, reason |-> "Target tube is full"]
    ELSE IF fromTube.id = toTube.id
    THEN [canPour |-> FALSE, reason |-> "Cannot pour to same tube"]
    ELSE IF Len(toTube.segments) = 0
    THEN [canPour |-> TRUE, reason |-> NoMessage]
    ELSE IF fromTube.segments[Len(fromTube.segments)].color
                = toTube.segments[Len(toTube.segments)].color
    THEN [canPour |-> TRUE, reason |-> NoMessage]
    ELSE [canPour |-> FALSE, reason |-> "Colors do not match"]

\* The loop of executePour that collects the consecutive segments of the
\* top colour, from index i (1-based) downwards, unshifting each onto acc.
RECURSIVE CollectTopRun(_, _, _, _)
CollectTopRun(segments, i, topColor, acc) ==
    IF i < 1 THEN acc
    ELSE IF segments[i].color = topColor
    THEN CollectTopRun(segments, i - 1, topColor, <<segments[i]>> \o acc)
    ELSE acc

\* A declined result that drops the reason.
PourFailureSilent(message) ==
    [success |-> FALSE, threw |-> FALSE, message |-> NoMessage,
     hasUpdatedTubes |-> FALSE, updatedTubes |-> <<>>,
     hasMovedSegments |-> FALSE, movedSegments |-> <<>>]

PourFailure(message) ==
    [success |-> FALSE, threw |-> FALSE, message |-> message,
     hasUpdatedTubes |-> FALSE, updatedTubes |-> <<>>,
     hasMovedSegments |-> FALSE, movedSegments |-> <<>>]

\* A TypeError: a property read on undefined.
PourThrow ==
    [success |-> FALSE, threw |-> TRUE, message |-> NoMessage,
     hasUpdatedTubes |-> FALSE, updatedTubes |-> <<>>,
     hasMovedSegments |-> FALSE, movedSegments |-> <<>>]

\* The whole run poured, whatever room the target has.
SegmentsThatFitAll(segmentsToPour, availableSpace) == segmentsToPour

\* How many of the collected segments are poured: segmentsToPour.slice(0,
\* availableSpace).
SegmentsThatFit(segmentsToPour, availableSpace) ==
    JsSlice(segmentsToPour, 0, availableSpace)

\* The whole top run removed from the source, poured or not.
SourceAfterPourWholeRun(fromSegments, segmentsThatFit) ==
    JsSlice(fromSegments, 0,
            Len(fromSegments)
              - Len(CollectTopRun(fromSegments, Len(fromSegments),
                                  fromSegments[Len(fromSegments)].color, <<>>)))

\* The source's segments once the poured ones are removed.
SourceAfterPour(fromSegments, segmentsThatFit) ==
    JsSlice(fromSegments, 0, Len(fromSegments) - Len(segmentsThatFit))

\* A variant that forgets what the target already holds.
AvailableSpaceOfEmpty(toTube) == toTube.capacity

\* availableSpace: the room left in the target.
AvailableSpace(toTube) == toTube.capacity - Len(toTube.segments)

\* The Tube[] argument as the call leaves it: executePour works on
\* updatedTubes, a copy of every tube with a copy of its segments array, so
\* the argument keeps its contents.
ArgumentAfterPour(tubes, fromId, toId) == tubes

executePour(tubes, fromId, toId) ==
    LET fi == FindTube(tubes, fromId)
        ti == FindTube(tubes, toId)
    IN  IF fi = 0 \/ ti = 0 THEN PourFailure("Invalid tube IDs")
        ELSE
        LET validation == canPour(tubes[fi], tubes[ti])
        IN  IF ~validation.canPour THEN PourFailure(validation.reason)
            ELSE IF Len(tubes[fi].segments) = 0 THEN PourThrow
            ELSE
            LET fromSegments == tubes[fi].segments
                topColor == fromSegments[Len(fromSegments)].color
                segmentsToPour ==
                    CollectTopRun(fromSegments, Len(fromSegments), topColor, <<>>)
                availableSpace == AvailableSpace(tubes[ti])
                segmentsThatFit == SegmentsThatFit(segmentsToPour, availableSpace)
                afterRemove ==
                    [tubes EXCEPT ![fi].segments =
                        SourceAfterPour(fromSegments, segmentsThatFit)]
                afterAdd ==
                    [afterRemove EXCEPT ![ti].segments =
                        afterRemove[ti].segments \o segmentsThatFit]
            IN  [success |-> TRUE, threw |-> FALSE, message |-> NoMessage,
                 hasUpdatedTubes |-> TRUE, updatedTubes |-> afterAdd,
                 hasMovedSegments |-> TRUE, movedSegments |-> segmentsThatFit]

\* segments.every(seg => seg.color === color), from index i on.
RECURSIVE EveryColor(_, _, _)
EveryColor(segments, i, color) ==
    IF i > Len(segments) THEN TRUE
    ELSE IF segments[i].color # color THEN FALSE
    ELSE EveryColor(segments, i + 1, color)

AllSameColor(segments) == EveryColor(segments, 1, segments[1].color)

\* The loop body without the fullness test.
TubeCompleteAnyFill(tube) == AllSameColor(tube.segments)

\* The verdict of isLevelComplete's loop body on one non-empty tube.
TubeComplete(tube) ==
    LET isFull == Len(tube.segments) = tube.capacity
        allSameColor == AllSameColor(tube.segments)
    IN  ~(~isFull \/ ~allSameColor)

\* The loop of isLevelComplete from tube i on.
RECURSIVE LevelCompleteFrom(_, _)
LevelCompleteFrom(tubes, i) ==
    IF i > Len(tubes) THEN TRUE
    ELSE IF Len(tubes[i].segments) = 0 THEN LevelCompleteFrom(tubes, i + 1)
    ELSE IF ~TubeComplete(tubes[i]) THEN FALSE
    ELSE LevelCompleteFrom(tubes, i + 1)

isLevelComplete(tubes) == LevelCompleteFrom(tubes, 1)

isTubeSorted(tube) ==
    IF Len(tube.segments) = 0 THEN TRUE
    ELSE IF Len(tube.segments) # tube.capacity THEN FALSE
    ELSE AllSameColor(tube.segments)

----------------------------------------------------------------------------
(* The solver: utils/solver.ts.                                            *)

cloneTubes(tubes) ==
    [i \in 1..Len(tubes) |->
        [tubes[i] EXCEPT
            !.segments = [k \in 1..Len(tubes[i].segments) |->
                            [color |-> tubes[i].segments[k].color,
                             id |-> tubes[i].segments[k].id]],
            !.unlockCondition =
                IF tubes[i].unlockCondition # NoCondition
                THEN [type |-> tubes[i].unlockCondition.type,
                      requirement |-> tubes[i].unlockCondition.requirement]
                ELSE NoCondition]]

\* The canonical state key: per tube, in order, the lock flag and the colour
\* sequence.  The key is the list of these pairs; the string the code joins
\* them into is read back unambiguously, the colours being '#RRGGBB' tokens.
serializeTubes(tubes) ==
    [i \in 1..Len(tubes) |->
        <<IF tubes[i].locked THEN "1" ELSE "0",
          [k \in 1..Len(tubes[i].segments) |-> tubes[i].segments[k].color]>>]

shouldSkipMove(fromTube, toTube) ==
    IF Len(fromTube.segments) = 0 THEN TRUE
    ELSE IF fromTube.locked THEN TRUE
    ELSE IF Len(toTube.segments) >= toTube.capacity THEN TRUE
    ELSE
    LET topColor == fromTube.segments[Len(fromTube.segments)].color
    IN  IF topColor = "" THEN TRUE
        ELSE IF /\ Len(toTube.segments) > 0
                /\ toTube.segments[Len(toTube.segments)].color # topColor
        THEN TRUE
        ELSE IF /\ Len(toTube.segments) = 0
                /\ EveryColor(fromTube.segments, 1, topColor)
                /\ Len(fromTube.segments) = fromTube.capacity
        THEN TRUE
        ELSE FALSE

\* tubes.filter(isTubeSorted).length
SortedCount(tubes) == Cardinality({i \in 1..Len(tubes) : isTubeSorted(tubes[i])})

\* A variant of the solver's unlock pass that waits for one sorted tube more
\* than the requirement.
applyUnlocksStrict(tubes) ==
    LET sortedCount == SortedCount(tubes)
        met == {i \in 1..Len(tubes) :
                    /\ tubes[i].locked
                    /\ tubes[i].unlockCondition.type = "sortedTubes"
                    /\ sortedCount > tubes[i].unlockCondition.requirement}
    IN  [i \in 1..Len(tubes) |->
            IF i \in met
            THEN [tubes[i] EXCEPT !.locked = FALSE, !.unlockCondition = NoCondition]
            ELSE tubes[i]]

applyUnlocks(tubes) ==
    LET sortedCount == SortedCount(tubes)
    IN  [i \in 1..Len(tubes) |->
            IF /\ tubes[i].locked
               /\ tubes[i].unlockCondition.type = "sortedTubes"
               /\ sortedCount >= tubes[i].unlockCondition.requirement
            THEN [tubes[i] EXCEPT !.locked = FALSE, !.unlockCondition = NoCondition]
            ELSE tubes[i]]

\* The move recorded for a pour, with source and target exchanged.
TubeMoveReversed(fromTube, toTube) ==
    [fromTubeId |-> toTube.id, toTubeId |-> fromTube.id]

\* The move recorded for a pour.
TubeMove(fromTube, toTube) ==
    [fromTubeId |-> fromTube.id, toTubeId |-> toTube.id]

\* The two inner loops of findOptimalSolution on one dequeued state, from
\* the pair (fromIndex, toIndex) on; st is [queue, visited, iterations].
RECURSIVE ExpandPairs(_, _, _, _, _)
ExpandPairs(tubes, moves, st, fromIndex, toIndex) ==
    IF fromIndex > Len(tubes) THEN st
    ELSE IF toIndex > Len(tubes) THEN ExpandPairs(tubes, moves, st, fromIndex + 1, 1)
    ELSE IF fromIndex = toIndex THEN ExpandPairs(tubes, moves, st, fromIndex, toIndex + 1)
    ELSE IF shouldSkipMove(tubes[fromIndex], tubes[toIndex])
    THEN ExpandPairs(tubes, moves, st, fromIndex, toIndex + 1)
    ELSE
    LET pr == executePour(tubes, tubes[fromIndex].id, tubes[toIndex].id)
        counted == [st EXCEPT !.iterations = st.iterations + 1]
    IN  IF \/ ~pr.success
           \/ ~pr.hasUpdatedTubes
           \/ ~pr.hasMovedSegments
           \/ Len(pr.movedSegments) = 0
        THEN ExpandPairs(tubes, moves, counted, fromIndex, toIndex + 1)
        ELSE
        LET updatedTubes == applyUnlocks(cloneTubes(pr.updatedTubes))
            stateKey == serializeTubes(updatedTubes)
        IN  IF stateKey \in st.visited
            THEN ExpandPairs(tubes, moves, counted, fromIndex, toIndex + 1)
            ELSE ExpandPairs(tubes, moves,
                    [queue |-> Append(st.queue,
                        [tubes |-> updatedTubes,
                         moves |-> Append(moves,
                                    TubeMove(tubes[fromIndex], tubes[toIndex]))]),
                     visited |-> st.visited \cup {stateKey},
                     iterations |-> counted.iterations],
                    fromIndex, toIndex + 1)

\* The outer loop of findOptimalSolution from queue position index (1-based).
RECURSIVE SolveLoop(_, _, _)
SolveLoop(st, index, maxIterations) ==
    IF ~(index <= Len(st.queue) /\ st.iterations < maxIterations)
    THEN [solved |-> FALSE, moves |-> <<>>, iterations |-> st.iterations]
    ELSE IF isLevelComplete(st.queue[index].tubes)
    THEN [solved |-> TRUE, moves |-> st.queue[index].moves,
          iterations |-> st.iterations]
    ELSE SolveLoop(ExpandPairs(st.queue[index].tubes, st.queue[index].moves, st, 1, 1),
                   index + 1, maxIterations)

\* The queue of findOptimalSolution when its outer loop ends, from queue
\* position index on: every state the search was created with or pushed.
RECURSIVE SolveQueue(_, _, _)
SolveQueue(st, index, maxIterations) ==
    IF ~(index <= Len(st.queue) /\ st.iterations < maxIterations) THEN st.queue
    ELSE IF isLevelComplete(st.queue[index].tubes) THEN st.queue
    ELSE SolveQueue(ExpandPairs(st.queue[index].tubes, st.queue[index].moves, st, 1, 1),
                    index + 1, maxIterations)

\* The queue findOptimalSolution ends with; a board complete at the start
\* returns before the queue is made.
solverQueue(initialTubes, maxIterations) ==
    LET initialState == cloneTubes(initialTubes)
    IN  IF isLevelComplete(initialState) THEN <<>>
        ELSE SolveQueue([queue |-> <<[tubes |-> initialState, moves |-> <<>>]>>,
                         visited |-> {serializeTubes(initialState)},
                         iterations |-> 0],
                        1, maxIterations)

findOptimalSolution(initialTubes, maxIterations) ==
    LET initialState == cloneTubes(initialTubes)
    IN  IF isLevelComplete(initialState)
        THEN [solved |-> TRUE, moves |-> <<>>, iterations |-> 0]
        ELSE SolveLoop([queue |-> <<[tubes |-> initialState, moves |-> <<>>]>>,
                        visited |-> {serializeTubes(initialState)},
                        iterations |-> 0],
                       1, maxIterations)

\* options.maxIterations ?? 250_000
DefaultMaxIterations == 250000

----------------------------------------------------------------------------
(* Scoring: PourSystem.calculateStars.                                     *)

\* A variant of the loop that tests the move caps only.
RECURSIVE FirstTierByMoves(_, _, _, _)
FirstTierByMoves(thresholds, k, safeMoves, safeTimeUsed) ==
    IF k > Len(thresholds) THEN 0
    ELSE IF safeMoves <= thresholds[k].requirement.moves
    THEN thresholds[k].stars
    ELSE FirstTierByMoves(thresholds, k + 1, safeMoves, safeTimeUsed)

\* The loop over the tiers, best first, from position k of the list.
RECURSIVE FirstTier(_, _, _, _)
FirstTier(thresholds, k, safeMoves, safeTimeUsed) ==
    IF k > Len(thresholds) THEN 0
    ELSE IF /\ safeMoves <= thresholds[k].requirement.moves
            /\ safeTimeUsed <= thresholds[k].requirement.timeSeconds
    THEN thresholds[k].stars
    ELSE FirstTier(thresholds, k + 1, safeMoves, safeTimeUsed)

\* A variant of the scorer that tries the tiers worst first.
calculateStarsWorstFirst(moves, timeUsedSeconds, starThresholds) ==
    LET safeMoves == Max(0, moves)
        safeTimeUsed == Max(0, timeUsedSeconds)
        thresholds == <<[stars |-> 1, requirement |-> starThresholds.one],
                        [stars |-> 2, requirement |-> starThresholds.two],
                        [stars |-> 3, requirement |-> starThresholds.three],
                        [stars |-> 4, requirement |-> starThresholds.four],
                        [stars |-> 5, requirement |-> starThresholds.five]>>
    IN  FirstTier(thresholds, 1, safeMoves, safeTimeUsed)

calculateStars(moves, timeUsedSeconds, starThresholds) ==
    LET safeMoves == Max(0, moves)
        safeTimeUsed == Max(0, timeUsedSeconds)
        thresholds == <<[stars |-> 5, requirement |-> starThresholds.five],
                        [stars |-> 4, requirement |-> starThresholds.four],
                        [stars |-> 3, requirement |-> starThresholds.three],
                        [stars |-> 2, requirement |-> starThresholds.two],
                        [stars |-> 1, requirement |-> starThresholds.one]>>
    IN  FirstTier(thresholds, 1, safeMoves, safeTimeUsed)

----------------------------------------------------------------------------
(* The session controller: GameProvider of contexts/game-context.tsx.      *)

\* null, for the optional fields: an optional value is <<>> or <<value>>.
Null == <<>>
Some(v) == <<v>>

\* cloneTubes of the provider: the same copy as the solver's.
cloneSessionTubes(tubes) == cloneTubes(tubes)

\* solverCacheRef.current.get(stateKey): the cached result, if any.
CacheHas(cache, stateKey) == \E e \in cache : e[1] = stateKey
CacheGet(cache, stateKey) == (CHOOSE e \in cache : e[1] = stateKey)[2]

\* maxIterations of the provider's solver calls.
SessionMaxIterations == 350000

\* computeSolutionForTubes: the result, and the cache afterwards.
computeSolutionForTubes(cache, tubes) ==
    LET stateKey == serializeTubes(tubes)
    IN  IF CacheHas(cache, stateKey)
        THEN [result |-> CacheGet(cache, stateKey), cache |-> cache]
        ELSE LET result == findOptimalSolution(cloneSessionTubes(tubes),
                                               SessionMaxIterations)
             IN  [result |-> result, cache |-> cache \cup {<<stateKey, result>>}]

\* A variant of the snapshot that forgets the star rating.
SnapshotWithoutStars(gs) ==
    [tubes |-> cloneSessionTubes(gs.tubes),
     moves |-> gs.moves,
     stars |-> 0,
     isComplete |-> gs.isComplete,
     isFailed |-> gs.isFailed,
     lastCoinsEarned |-> gs.lastCoinsEarned,
     optimalMoveCount |-> gs.optimalMoveCount]

\* createSnapshot on the game state gs.  The snapshot's selectedTube is left
\* out: undoMove and redoMove, the only readers of a snapshot, set the
\* selection to null.
SnapshotOf(gs) ==
    [tubes |-> cloneSessionTubes(gs.tubes),
     moves |-> gs.moves,
     stars |-> gs.stars,
     isComplete |-> gs.isComplete,
     isFailed |-> gs.isFailed,
     lastCoinsEarned |-> gs.lastCoinsEarned,
     optimalMoveCount |-> gs.optimalMoveCount]

createSnapshot == SnapshotOf(gameState)

\* LEVELS.find(l => l.id === levelId): the index in LEVELS, 0 when absent.
FindLevel(levelId) ==
    IF \E k \in 1..Len(LEVELS) : LEVELS[k].id = levelId
    THEN CHOOSE k \in 1..Len(LEVELS) :
            /\ LEVELS[k].id = levelId
            /\ \A j \in 1..(k - 1) : LEVELS[j].id # levelId
    ELSE 0

\* The permutations of 1..n: what shuffle (Fisher-Yates on Math.random) can
\* return.
ShuffleOrders(n) ==
    {f \in [1..n -> 1..n] : \A i, j \in 1..n : i # j => f[i] # f[j]}

\* filledTubes.flatMap(tube => tube.segments), from tube i on.
RECURSIVE FlatSegments(_, _)
FlatSegments(tubes, i) ==
    IF i > Len(tubes) THEN <<>>
    ELSE tubes[i].segments \o FlatSegments(tubes, i + 1)

\* The map of startLevel that deals the shuffled segments back, from tube i
\* on, pointer (0-based) being the position reached in shuffledSegments.
RECURSIVE DealSegments(_, _, _, _, _)
DealSegments(tubes, shuffledSegments, levelId, i, pointer) ==
    IF i > Len(tubes) THEN <<>>
    ELSE IF Len(tubes[i].segments) = 0
    THEN <<[tubes[i] EXCEPT !.segments = <<>>]>>
            \o DealSegments(tubes, shuffledSegments, levelId, i + 1, pointer)
    ELSE
    LET segmentCount == tubes[i].capacity
        slice == JsSlice(shuffledSegments, pointer, pointer + segmentCount)
        newSegments ==
            [k \in 1..Len(slice) |->
                [color |-> slice[k].color,
                 id |-> <<slice[k].id, "r", levelId, pointer + (k - 1)>>]]
    IN  <<[tubes[i] EXCEPT !.segments = newSegments]>>
            \o DealSegments(tubes, shuffledSegments, levelId, i + 1,
                            pointer + segmentCount)

\* A variant of the preparation in which a restart of the level being
\* played goes on from the board of the session.
PreparedTubesFromSession(level) ==
    IF gameState.currentLevel = level.id
    THEN {cloneSessionTubes(gameState.tubes)}
    ELSE {cloneSessionTubes(level.tubes)}

\* The boards startLevel may prepare from a level: the cloned template, or,
\* for a level that randomizes on start, every redistribution of its
\* segments.
PreparedTubes(level) ==
    LET clonedTubes == cloneSessionTubes(level.tubes)
    IN  IF ~level.randomizeOnStart THEN {clonedTubes}
        ELSE LET allSegments == FlatSegments(clonedTubes, 1)
             IN  {DealSegments(clonedTubes,
                               [k \in 1..Len(allSegments) |-> allSegments[perm[k]]],
                               level.id, 1, 0) :
                        perm \in ShuffleOrders(Len(allSegments))}

----------------------------------------------------------------------------
(* Level templates of the session model.  generateLevel's levels have one  *)
(* full tube per colour, dealt from the shuffled segments, and empty tubes *)
(* after them; the templates below have that shape at a smaller capacity,  *)
(* plus a level with a tube locked until enough tubes are sorted, which    *)
(* the Tube type allows.                                                   *)

\* A tube of a level: ids are <<level, index>>, segment ids <<level, index,
\* position>>.
MkTube(level, i, capacity, colors, locked, condition) ==
    [id |-> <<level, i>>,
     segments |-> [k \in 1..Len(colors) |-> [color |-> colors[k], id |-> <<level, i, k>>]],
     capacity |-> capacity,
     locked |-> locked,
     unlockCondition |-> condition]

\* Math.round of the non-negative fraction num / den.
JsRound(num, den) == (2 * num + den) \div (2 * den)

Clamp(value, min, max) == Max(min, Min(max, value))

getMoveLimitForLevel(levelId, optimalMoves) == optimalMoves + 3

getTimeLimitForLevel(levelId) ==
    IF levelId <= 1 THEN 15
    ELSE IF levelId >= 500 THEN 300
    ELSE JsRound(15 * 499 + (300 - 15) * (levelId - 1), 499)

\* The time limits and ratios (in percent) whose product ends in .5 as a
\* fraction but falls just below it in double arithmetic, for time limits up
\* to 300: there Math.round rounds down.
ProductsBelowHalf ==
    {<<45, 70>>, <<85, 70>>, <<90, 35>>, <<165, 70>>, <<170, 35>>, <<175, 70>>}

\* Math.round(value * ratio) in double arithmetic, the ratio in percent.
JsRoundOfProduct(value, percent) ==
    IF <<value, percent>> \in ProductsBelowHalf
    THEN JsRound(value * percent, 100) - 1
    ELSE JsRound(value * percent, 100)

\* A variant of the limits that takes the time ratios loosest first and
\* leaves out the maxima.
LevelLimitsLoosestFirst(levelId, numColors, numEmptyTubes) ==
    LET optimalMoves == numColors * 2 + (numEmptyTubes \div 2)
                            + Max(1, numColors \div 2)
        moveLimit == getMoveLimitForLevel(levelId, optimalMoves)
        timeLimitSeconds == getTimeLimitForLevel(levelId)
        clampMoves(value) == Min(value, moveLimit)
        computeTimeThreshold(percent) ==
            Clamp(Max(1, JsRoundOfProduct(timeLimitSeconds, percent)),
                  1, timeLimitSeconds)
    IN  [moveLimit |-> moveLimit,
         timeLimitSeconds |-> timeLimitSeconds,
         starThresholds |->
            [five |-> [moves |-> clampMoves(optimalMoves),
                       timeSeconds |-> computeTimeThreshold(100)],
             four |-> [moves |-> clampMoves(optimalMoves + 1),
                       timeSeconds |-> computeTimeThreshold(85)],
             three |-> [moves |-> clampMoves(optimalMoves + 2),
                        timeSeconds |-> computeTimeThreshold(70)],
             two |-> [moves |-> clampMoves(optimalMoves + 3),
                      timeSeconds |-> computeTimeThreshold(50)],
             one |-> [moves |-> moveLimit,
                      timeSeconds |-> computeTimeThreshold(35)]]]

\* The tail of generateLevel: the estimated optimal move count, the limits
\* and the star thresholds of a level with these counts (ratios in percent).
LevelLimits(levelId, numColors, numEmptyTubes) ==
    LET optimalMoves == numColors * 2 + (numEmptyTubes \div 2)
                            + Max(1, numColors \div 2)
        moveLimit == getMoveLimitForLevel(levelId, optimalMoves)
        timeLimitSeconds == getTimeLimitForLevel(levelId)
        clampMoves(value) == Min(value, moveLimit)
        computeTimeThreshold(percent) ==
            Clamp(Max(1, JsRoundOfProduct(timeLimitSeconds, percent)),
                  1, timeLimitSeconds)
        timeThresholds == <<computeTimeThreshold(35), computeTimeThreshold(50),
                            computeTimeThreshold(70), computeTimeThreshold(85),
                            computeTimeThreshold(100)>>
    IN  [moveLimit |-> moveLimit,
         timeLimitSeconds |-> timeLimitSeconds,
         starThresholds |->
            [five |-> [moves |-> clampMoves(optimalMoves),
                       timeSeconds |-> timeThresholds[1]],
             four |-> [moves |-> clampMoves(optimalMoves + 1),
                       timeSeconds |-> Max(timeThresholds[1], timeThresholds[2])],
             three |-> [moves |-> clampMoves(optimalMoves + 2),
                        timeSeconds |-> Max(timeThresholds[2], timeThresholds[3])],
             two |-> [moves |-> clampMoves(optimalMoves + 3),
                      timeSeconds |-> Max(timeThresholds[3], timeThresholds[4])],
             one |-> [moves |-> moveLimit,
                      timeSeconds |-> Max(timeThresholds[4], timeThresholds[5])]]]

\* A Level record around a template board.
MkLevel(levelId, tubes, randomizeOnStart) ==
    LET numFilled == Cardinality({i \in 1..Len(tubes) : Len(tubes[i].segments) > 0})
        limits == LevelLimits(levelId, numFilled, Len(tubes) - numFilled)
    IN  [id |-> levelId,
         tubes |-> tubes,
         starThresholds |-> limits.starThresholds,
         moveLimit |-> limits.moveLimit,
         timeLimitSeconds |-> limits.timeLimitSeconds,
         randomizeOnStart |-> randomizeOnStart]

\* Level 1: one deal of two colours at capacity 3 with one empty tube, not
\* randomized.
LevelOneChoices ==
    {MkLevel(1, <<MkTube(1, 1, 3, <<"blue", "red", "red">>, FALSE, NoCondition),
                  MkTube(1, 2, 3, <<"blue", "red", "blue">>, FALSE, NoCondition),
                  MkTube(1, 3, 3, <<>>, FALSE, NoCondition)>>, FALSE)}

\* Level 2: one colour at capacity 2 with one empty tube, randomized on
\* start.
LevelTwoChoices ==
    {MkLevel(2, <<MkTube(2, 1, 2, <<"red", "red">>, FALSE, NoCondition),
                  MkTube(2, 2, 2, <<>>, FALSE, NoCondition)>>, TRUE)}

\* Level 3: capacity 2, with a tube locked until r tubes are sorted.
LevelThreeChoices ==
    {MkLevel(3, <<MkTube(3, 1, 2, <<"blue", "red">>, FALSE, NoCondition),
                  MkTube(3, 2, 2, <<"red">>, FALSE, NoCondition),
                  MkTube(3, 3, 2, <<"blue">>, TRUE,
                         [type |-> "sortedTubes", requirement |-> r])>>, FALSE) :
        r \in 1..2}

LevelIds == {1, 2, 3}

----------------------------------------------------------------------------
(* The session controller's state machine.                                 *)

\* The results before any call of the pure functions.
NoCanPour == [canPour |-> FALSE, reason |-> NoMessage]

NoSolveResult == [solved |-> FALSE, moves |-> <<>>, iterations |-> 0]

NoProgress == [stars |-> 0, completed |-> FALSE, present |-> FALSE]

NoStarsArgs == <<>>

NoGenArgs == <<>>

NoLevel == <<>>

\* The provider after mounting, for the level tables and the stored coin
\* balances given.
SessionInit(levelTables, storedCoins) ==
    /\ LEVELS \in levelTables
    /\ \E coins \in storedCoins :
       gameState = [currentLevel |-> 0,
                    tubes |-> <<>>,
                    moves |-> 0,
                    stars |-> 0,
                    isComplete |-> FALSE,
                    isFailed |-> FALSE,
                    selectedTube |-> NoTubeId,
                    userProgress |-> [l \in LevelIds |-> NoProgress],
                    coinBalance |-> coins,
                    lastCoinsEarned |-> 0,
                    optimalMoveCount |-> Null,
                    hintMove |-> Null,
                    hintsUsed |-> 0]
    /\ moveHistory = <<>>
    /\ redoHistory = <<>>
    /\ initialTubesRef = <<>>
    /\ solverCacheRef = {}
    /\ solverTimeoutRef = Null
    /\ starts = 0
    /\ pendingHints = <<>>
    /\ starsArgs = NoStarsArgs
    /\ starsResult = 0
    /\ genArgs = NoGenArgs
    /\ genLevel = NoLevel
    /\ board = <<>>
    /\ phase = "session"
    /\ fromTubeId = NoTubeId
    /\ toTubeId = NoTubeId
    /\ canPourResult = NoCanPour
    /\ pourResult = PourFailure(NoMessage)
    /\ argAfter = <<>>
    /\ completeResult = FALSE
    /\ solveBound = 0
    /\ solveResult = NoSolveResult

\* A first visit: the three levels, nothing stored.
Init ==
    SessionInit({<<a, b, c>> : a \in LevelOneChoices, b \in LevelTwoChoices,
                               c \in LevelThreeChoices}, {0})

harnessVars == <<board, phase, pourVars, solverVars, starVars, levelVars>>

\* A variant of the timer handling in which a pending timer is left to run.
TimerKeptAfterStart(pending, levelId, initialClone) ==
    IF pending # Null THEN pending
    ELSE Some([levelId |-> levelId, initialClone |-> initialClone])

\* The par timer after startLevel: a pending timer is cleared, and the new
\* one holds the level id and the clone of the prepared board.
TimerAfterStart(pending, levelId, initialClone) ==
    Some([levelId |-> levelId, initialClone |-> initialClone])

\* The body of startLevel for a level id, the shuffle having prepared
\* preparedTubes.
StartLevelWith(levelId, preparedTubes) ==
    LET initialClone == cloneSessionTubes(preparedTubes)
    IN  /\ initialTubesRef' = initialClone
        /\ gameState' = [currentLevel |-> levelId,
                         tubes |-> preparedTubes,
                         moves |-> 0,
                         stars |-> 0,
                         isComplete |-> FALSE,
                         isFailed |-> FALSE,
                         selectedTube |-> NoTubeId,
                         userProgress |-> gameState.userProgress,
                         coinBalance |-> gameState.coinBalance,
                         lastCoinsEarned |-> 0,
                         optimalMoveCount |-> Null,
                         hintMove |-> Null,
                         hintsUsed |-> 0]
        /\ moveHistory' = <<>>
        /\ redoHistory' = <<>>
        /\ solverTimeoutRef' = TimerAfterStart(solverTimeoutRef, levelId, initialClone)
        /\ starts' = starts + 1
        /\ UNCHANGED <<LEVELS, solverCacheRef, pendingHints, harnessVars>>

\* startLevel(levelId); an id LEVELS does not hold returns at once.
startLevel(levelId) ==
    IF FindLevel(levelId) = 0 THEN UNCHANGED vars
    ELSE \E preparedTubes \in PreparedTubes(LEVELS[FindLevel(levelId)]) :
            StartLevelWith(levelId, preparedTubes)

StartLevel ==
    /\ starts < MaxStarts
    /\ \E levelId \in LevelIds : startLevel(levelId)

ResetLevel ==
    /\ starts < MaxStarts
    /\ startLevel(gameState.currentLevel)

\* The deferred scheduleCalculation of startLevel, when its timer fires.
ScheduleCalculation ==
    /\ solverTimeoutRef # Null
    /\ \E computed \in {computeSolutionForTubes(solverCacheRef,
                                                 solverTimeoutRef[1].initialClone)} :
       LET timer == solverTimeoutRef[1]
           solution == computed.result
       IN  /\ solverTimeoutRef' = Null
           /\ solverCacheRef' = computed.cache
           /\ gameState' =
                IF gameState.currentLevel # timer.levelId THEN gameState
                ELSE IF ~solution.solved
                THEN [gameState EXCEPT !.optimalMoveCount = Null]
                ELSE IF gameState.optimalMoveCount = Some(Len(solution.moves))
                THEN gameState
                ELSE [gameState EXCEPT !.optimalMoveCount = Some(Len(solution.moves))]
    /\ UNCHANGED <<LEVELS, moveHistory, redoHistory, initialTubesRef, starts, pendingHints,
                   harnessVars>>

\* The unlock pass left out: the poured tubes are kept as they are.
SessionUnlocksSkipped(tubes) == tubes

\* A deselection that also drops the redo history.
DeselectClearingRedo ==
    /\ gameState' = [gameState EXCEPT !.selectedTube = NoTubeId]
    /\ redoHistory' = <<>>
    /\ UNCHANGED <<LEVELS, moveHistory, initialTubesRef,
                   solverCacheRef, solverTimeoutRef, starts, pendingHints, harnessVars>>

\* The unlock pass of selectTube: a locked tube whose sortedTubes
\* requirement is met is unlocked; its unlockCondition stays.
SessionUnlocks(tubes) ==
    LET sortedCount == Cardinality({i \in 1..Len(tubes) : isTubeSorted(tubes[i])})
    IN  [i \in 1..Len(tubes) |->
            IF /\ tubes[i].locked
               /\ tubes[i].unlockCondition # NoCondition
               /\ tubes[i].unlockCondition.type = "sortedTubes"
               /\ sortedCount >= tubes[i].unlockCondition.requirement
            THEN [tubes[i] EXCEPT !.locked = FALSE]
            ELSE tubes[i]]

Deselect ==
    /\ gameState' = [gameState EXCEPT !.selectedTube = NoTubeId]
    /\ UNCHANGED <<LEVELS, moveHistory, redoHistory, initialTubesRef,
                   solverCacheRef, solverTimeoutRef, starts, pendingHints, harnessVars>>

\* A variant of the reward that counts every move, not the moves over the
\* baseline.
DiamondScoreOfMoves(newMoves, baselineMoves) ==
    Max(1, Min(10, 10 - Max(0, newMoves)))

\* The reward of a completion in newMoves moves against baselineMoves.
DiamondScore(newMoves, baselineMoves) ==
    LET moveGap == Max(0, newMoves - baselineMoves)
    IN  Max(1, Min(10, 10 - moveGap))

\* The branch of selectTube after a successful pour.
AfterPour(result) ==
    LET newMoves == gameState.moves + 1
        updatedTubes == SessionUnlocks(result.updatedTubes)
        isComplete == isLevelComplete(updatedTubes)
        levelIndex == FindLevel(gameState.currentLevel)
    IN  /\ moveHistory' = Append(moveHistory, createSnapshot)
        /\ redoHistory' = <<>>
        /\ IF isComplete /\ levelIndex # 0
           THEN \E computed \in {IF Len(initialTubesRef) # 0
                                  THEN computeSolutionForTubes(solverCacheRef,
                                                               initialTubesRef)
                                  ELSE [result |-> NoSolveResult,
                                        cache |-> solverCacheRef]} :
                LET level == LEVELS[levelIndex]
                    starsEarned == calculateStars(newMoves, 0, level.starThresholds)
                    initialSolution == computed.result
                    optimalFromStart == IF initialSolution.solved
                                        THEN Some(Len(initialSolution.moves))
                                        ELSE Null
                    baselineMoves == IF optimalFromStart # Null
                                     THEN optimalFromStart[1]
                                     ELSE Max(0, level.starThresholds.five.moves)
                    diamondScore == DiamondScore(newMoves, baselineMoves)
                    coinsEarned == diamondScore
                    old == gameState.userProgress[gameState.currentLevel]
                    updatedProgress ==
                        IF ~old.present \/ old.stars < starsEarned
                        THEN [gameState.userProgress EXCEPT
                                ![gameState.currentLevel] =
                                    [stars |-> starsEarned, completed |-> TRUE,
                                     present |-> TRUE]]
                        ELSE gameState.userProgress
                    updatedCoinBalance ==
                        Max(0, Min(9999, gameState.coinBalance + coinsEarned))
                IN  /\ solverCacheRef' = computed.cache
                    /\ gameState' =
                        [gameState EXCEPT
                            !.tubes = updatedTubes,
                            !.moves = newMoves,
                            !.stars = starsEarned,
                            !.isComplete = TRUE,
                            !.isFailed = FALSE,
                            !.selectedTube = NoTubeId,
                            !.userProgress = updatedProgress,
                            !.coinBalance = updatedCoinBalance,
                            !.lastCoinsEarned = coinsEarned,
                            !.hintMove = Null,
                            !.optimalMoveCount =
                                IF optimalFromStart # Null THEN optimalFromStart
                                ELSE gameState.optimalMoveCount]
           ELSE /\ solverCacheRef' = solverCacheRef
                /\ gameState' =
                    [gameState EXCEPT
                        !.tubes = updatedTubes,
                        !.moves = newMoves,
                        !.isComplete = isComplete,
                        !.isFailed = FALSE,
                        !.selectedTube = NoTubeId,
                        !.hintMove = Null]
        /\ UNCHANGED <<LEVELS, initialTubesRef, solverTimeoutRef, starts, pendingHints,
                       harnessVars>>

\* A guard that stops taps only in a failed session.
SessionOverOnFailure(gs) == gs.isFailed

\* The guard at the head of selectTube: the session is complete or failed.
SessionOver(gs) == gs.isComplete \/ gs.isFailed

selectTube(tubeId) ==
    LET targetIndex == FindTube(gameState.tubes, tubeId)
        sourceIndex == FindTube(gameState.tubes, gameState.selectedTube)
    IN  IF SessionOver(gameState) THEN UNCHANGED vars
        ELSE IF targetIndex = 0 THEN UNCHANGED vars
        ELSE IF gameState.tubes[targetIndex].locked THEN Deselect
        ELSE IF gameState.selectedTube = NoTubeId
        THEN IF Len(gameState.tubes[targetIndex].segments) > 0
             THEN /\ gameState' = [gameState EXCEPT !.selectedTube = tubeId]
                  /\ UNCHANGED <<LEVELS, moveHistory, redoHistory,
                                 initialTubesRef, solverCacheRef,
                                 solverTimeoutRef, starts, pendingHints, harnessVars>>
             ELSE UNCHANGED vars
        ELSE IF gameState.selectedTube = tubeId THEN Deselect
        ELSE IF sourceIndex = 0 \/ gameState.tubes[sourceIndex].locked THEN Deselect
        ELSE \E result \in {executePour(gameState.tubes, gameState.selectedTube,
                                         tubeId)} :
                 IF result.threw THEN UNCHANGED vars
                 ELSE IF result.success /\ result.hasUpdatedTubes
                 THEN AfterPour(result)
                 ELSE Deselect

\* A click on a tube of the board, or on an id the board does not hold.
\* The model follows a session for MaxMoves moves and up to MaxCoins coins.
SelectTube ==
    /\ gameState.moves < MaxMoves
    /\ gameState.coinBalance + 10 <= MaxCoins
    /\ \E tubeId \in {gameState.tubes[i].id : i \in 1..Len(gameState.tubes)}
                        \cup {AbsentTubeId} :
            selectTube(tubeId)

\* A variant of the restore that keeps the current move count.
RestoreKeepingMoves(gs, snapshot) ==
    [gs EXCEPT
        !.tubes = cloneSessionTubes(snapshot.tubes),
        !.stars = snapshot.stars,
        !.isComplete = snapshot.isComplete,
        !.isFailed = snapshot.isFailed,
        !.selectedTube = NoTubeId,
        !.lastCoinsEarned = snapshot.lastCoinsEarned,
        !.optimalMoveCount = IF snapshot.optimalMoveCount # Null
                             THEN snapshot.optimalMoveCount
                             ELSE gs.optimalMoveCount,
        !.hintMove = Null]

\* The state a snapshot restores over the game state gs, shared by undoMove
\* and redoMove.
RestoreFrom(gs, snapshot) ==
    [gs EXCEPT
        !.tubes = cloneSessionTubes(snapshot.tubes),
        !.moves = snapshot.moves,
        !.stars = snapshot.stars,
        !.isComplete = snapshot.isComplete,
        !.isFailed = snapshot.isFailed,
        !.selectedTube = NoTubeId,
        !.lastCoinsEarned = snapshot.lastCoinsEarned,
        !.optimalMoveCount = IF snapshot.optimalMoveCount # Null
                             THEN snapshot.optimalMoveCount
                             ELSE gs.optimalMoveCount,
        !.hintMove = Null]

RestoreSnapshot(snapshot) == RestoreFrom(gameState, snapshot)

\* What undoMove and redoMove read and write: the game state and the two
\* histories.
Histories == [gameState |-> gameState, moveHistory |-> moveHistory,
              redoHistory |-> redoHistory]

\* An undo that does not keep the undone state for redo.
undoMoveWithoutRedo(s) ==
    IF Len(s.moveHistory) = 0 THEN s
    ELSE [gameState |-> RestoreFrom(s.gameState, s.moveHistory[Len(s.moveHistory)]),
          moveHistory |-> JsSlice(s.moveHistory, 0, -1),
          redoHistory |-> s.redoHistory]

\* undoMove on s, a record of the game state and the two histories.
undoMove(s) ==
    IF Len(s.moveHistory) = 0 THEN s
    ELSE [gameState |-> RestoreFrom(s.gameState, s.moveHistory[Len(s.moveHistory)]),
          moveHistory |-> JsSlice(s.moveHistory, 0, -1),
          redoHistory |-> Append(s.redoHistory, SnapshotOf(s.gameState))]

\* A redo that also puts the hints used back to 0.
redoMoveForgettingHints(s) ==
    IF Len(s.redoHistory) = 0 THEN s
    ELSE [gameState |-> [RestoreFrom(s.gameState, s.redoHistory[Len(s.redoHistory)])
                            EXCEPT !.hintsUsed = 0],
          moveHistory |-> Append(s.moveHistory, SnapshotOf(s.gameState)),
          redoHistory |-> JsSlice(s.redoHistory, 0, -1)]

\* redoMove on s.
redoMove(s) ==
    IF Len(s.redoHistory) = 0 THEN s
    ELSE [gameState |-> RestoreFrom(s.gameState, s.redoHistory[Len(s.redoHistory)]),
          moveHistory |-> Append(s.moveHistory, SnapshotOf(s.gameState)),
          redoHistory |-> JsSlice(s.redoHistory, 0, -1)]

UndoMove ==
    /\ \E after \in {undoMove(Histories)} :
        /\ gameState' = after.gameState
        /\ moveHistory' = after.moveHistory
        /\ redoHistory' = after.redoHistory
    /\ UNCHANGED <<LEVELS, initialTubesRef, solverCacheRef, solverTimeoutRef,
                   starts, pendingHints, harnessVars>>

RedoMove ==
    /\ \E after \in {redoMove(Histories)} :
        /\ gameState' = after.gameState
        /\ moveHistory' = after.moveHistory
        /\ redoHistory' = after.redoHistory
    /\ UNCHANGED <<LEVELS, initialTubesRef, solverCacheRef, solverTimeoutRef,
                   starts, pendingHints, harnessVars>>

\* clearHint: drops the hint on show, if any.
ClearHint ==
    /\ gameState' = IF gameState.hintMove = Null THEN gameState
                    ELSE [gameState EXCEPT !.hintMove = Null]
    /\ UNCHANGED <<LEVELS, moveHistory, redoHistory, initialTubesRef,
                   solverCacheRef, solverTimeoutRef, starts, pendingHints,
                   harnessVars>>

\* requestHint up to the timer it sets: the closure keeps a clone of the
\* board and the level id.  The field attempt is the model's own: it
\* records how many level starts had run when the request was made, which
\* the code does not keep.
requestHint ==
    IF gameState.isComplete \/ gameState.isFailed THEN UNCHANGED vars
    ELSE IF gameState.hintsUsed >= 3 THEN UNCHANGED vars
    ELSE IF gameState.coinBalance < 5 THEN UNCHANGED vars
    ELSE /\ pendingHints' =
                Append(pendingHints,
                       [tubesSnapshot |-> cloneSessionTubes(gameState.tubes),
                        currentLevel |-> gameState.currentLevel,
                        attempt |-> starts])
         /\ UNCHANGED <<LEVELS, gameState, moveHistory, redoHistory,
                        initialTubesRef, solverCacheRef, solverTimeoutRef,
                        starts, harnessVars>>

RequestHint ==
    /\ Len(pendingHints) < MaxPendingHints
    /\ requestHint

\* A state updater of computeHint that compares the level only, not the
\* coins and the hints used at the time it runs.
HintAppliedUnchecked(prev, hint, solution) ==
    IF solution.solved /\ Len(solution.moves) > 0
    THEN IF prev.currentLevel # hint.currentLevel
         THEN prev
         ELSE [prev EXCEPT
                  !.hintMove = Some(solution.moves[1]),
                  !.coinBalance = Max(0, prev.coinBalance - 5),
                  !.hintsUsed = prev.hintsUsed + 1,
                  !.optimalMoveCount =
                      IF prev.optimalMoveCount = Null
                      THEN Some(Len(solution.moves))
                      ELSE prev.optimalMoveCount]
    ELSE IF prev.currentLevel # hint.currentLevel THEN prev
    ELSE IF prev.hintMove = Null THEN prev
    ELSE [prev EXCEPT !.hintMove = Null]

\* The game state computeHint leaves, for the pending request hint and the
\* solution the solver found for its snapshot.
HintApplied(prev, hint, solution) ==
    IF solution.solved /\ Len(solution.moves) > 0
    THEN IF \/ prev.currentLevel # hint.currentLevel
            \/ prev.coinBalance < 5
            \/ prev.hintsUsed >= 3
         THEN prev
         ELSE [prev EXCEPT
                  !.hintMove = Some(solution.moves[1]),
                  !.coinBalance = Max(0, prev.coinBalance - 5),
                  !.hintsUsed = prev.hintsUsed + 1,
                  !.optimalMoveCount =
                      IF prev.optimalMoveCount = Null
                      THEN Some(Len(solution.moves))
                      ELSE prev.optimalMoveCount]
    ELSE IF prev.currentLevel # hint.currentLevel THEN prev
    ELSE IF prev.hintMove = Null THEN prev
    ELSE [prev EXCEPT !.hintMove = Null]

\* computeHint, when the timer of the oldest pending request fires (timers
\* of equal delay fire in the order they were set).
ComputeHint ==
    /\ Len(pendingHints) > 0
    /\ \E computed \in {computeSolutionForTubes(solverCacheRef,
                                                 pendingHints[1].tubesSnapshot)} :
        /\ solverCacheRef' = computed.cache
        /\ gameState' = HintApplied(gameState, pendingHints[1], computed.result)
    /\ pendingHints' = Tail(pendingHints)
    /\ UNCHANGED <<LEVELS, moveHistory, redoHistory, initialTubesRef,
                   solverTimeoutRef, starts, harnessVars>>

Next ==
    \/ StartLevel
    \/ ResetLevel
    \/ ScheduleCalculation
    \/ SelectTube
    \/ UndoMove
    \/ RedoMove

Spec == Init /\ [][Next]_vars

\* A click as in SelectTube, followed up to the move limit of the level
\* instead of MaxMoves.
SelectTubeWithinBudget ==
    /\ FindLevel(gameState.currentLevel) # 0
    /\ gameState.moves < LEVELS[FindLevel(gameState.currentLevel)].moveLimit
    /\ \E tubeId \in {gameState.tubes[i].id : i \in 1..Len(gameState.tubes)} :
            selectTube(tubeId)

\* A player who only starts level 1 and taps, never undoing, until the
\* move limit of the level.
BudgetInit == SessionInit({<<a>> : a \in LevelOneChoices}, {0})

BudgetNext ==
    \/ StartLevel
    \/ ScheduleCalculation
    \/ SelectTubeWithinBudget

SpecBudget == BudgetInit /\ [][BudgetNext]_vars

\* A returning player with stored coins, who also asks for hints, on the
\* randomized level and the level with the locked tube.
HintInit ==
    SessionInit({<<b, c>> : b \in LevelTwoChoices, c \in LevelThreeChoices},
                {SavedCoins})

HintNext ==
    \/ StartLevel
    \/ ResetLevel
    \/ ScheduleCalculation
    \/ SelectTube
    \/ UndoMove
    \/ RedoMove
    \/ RequestHint
    \/ ComputeHint
    \/ ClearHint

SpecHints == HintInit /\ [][HintNext]_vars

\* Two levels whose templates hold the same colours in the same places, as
\* levels of one colour set and tube count do when their shuffles agree:
\* two colours at capacity 2 and an empty tube.
TwinLevel(levelId) ==
    MkLevel(levelId, <<MkTube(levelId, 1, 2, <<"blue", "red">>, FALSE, NoCondition),
                       MkTube(levelId, 2, 2, <<"red", "blue">>, FALSE, NoCondition),
                       MkTube(levelId, 3, 2, <<>>, FALSE, NoCondition)>>, FALSE)

\* A returning player on the two twin levels, who starts levels and asks
\* for hints without pouring.
TwinInit == SessionInit({<<TwinLevel(1), TwinLevel(2)>>}, {SavedCoins})

TwinNext ==
    \/ StartLevel
    \/ ScheduleCalculation
    \/ RequestHint
    \/ ComputeHint
    \/ ClearHint

SpecTwins == TwinInit /\ [][TwinNext]_vars

----------------------------------------------------------------------------
(* Boards handed to the pure functions.  Tube ids are <<level, index>>,    *)
(* segment ids <<level, tube index, position>>: pairwise distinct, as the  *)
(* ids generateLevel writes are.                                           *)

ColorStacks(maxLen) == UNION {[1..n -> Colors] : n \in 0..maxLen}

\* What one tube may look like: a capacity, a stack no longer than it, a
\* lock flag.
TubeShapes(maxCap) ==
    UNION {{[capacity |-> c, colors |-> cs, locked |-> lk] :
                cs \in ColorStacks(c), lk \in BOOLEAN} : c \in 1..maxCap}

PourBoards ==
    {[i \in PourTubes |->
        MkTube(0, i, f[i].capacity, f[i].colors, f[i].locked, NoCondition)] :
            f \in [PourTubes -> TubeShapes(MaxCap)]}

PourIds == {<<0, i>> : i \in PourTubes} \cup {AbsentTubeId}

\* How a tube may be locked: not at all, for good, or until enough tubes
\* are sorted.
LockChoices(tubeCount) ==
    {[locked |-> FALSE, condition |-> NoCondition],
     [locked |-> TRUE, condition |-> NoCondition]}
    \cup {[locked |-> TRUE,
           condition |-> [type |-> "sortedTubes", requirement |-> r]] :
                r \in 1..tubeCount}

SolverShapes ==
    UNION {{[capacity |-> c, colors |-> cs] : cs \in ColorStacks(c)} :
                c \in SolverCapacities}

RECURSIVE SumLen(_, _)
SumLen(f, S) ==
    IF S = {} THEN 0
    ELSE LET i == CHOOSE x \in S : TRUE
         IN  Len(f[i].colors) + SumLen(f, S \ {i})

\* The boards handed to the solver: every filling within the bounds, with
\* at most one tube locked.
SolverBoards ==
    {[i \in SolverTubes |->
        MkTube(0, i, b.f[i].capacity, b.f[i].colors,
               IF i = b.lockedTube THEN b.lock.locked ELSE FALSE,
               IF i = b.lockedTube THEN b.lock.condition ELSE NoCondition)] :
        b \in {[f |-> f, lockedTube |-> t, lock |-> l] :
                  f \in {g \in [SolverTubes -> SolverShapes] :
                            SumLen(g, SolverTubes) <= SolverMaxSegments},
                  t \in SolverTubes,
                  l \in LockChoices(Cardinality(SolverTubes))}}

----------------------------------------------------------------------------
(* The pour engine applied to every board and every pair of ids.           *)

PourInit ==
    /\ board \in PourBoards
    /\ fromTubeId \in PourIds
    /\ toTubeId \in PourIds
    /\ canPourResult = NoCanPour
    /\ pourResult = PourFailure(NoMessage)
    /\ argAfter = board
    /\ completeResult = FALSE
    /\ phase = "input"
    /\ solveBound = 0
    /\ solveResult = NoSolveResult
    /\ LEVELS = <<>>
    /\ gameState = <<>>
    /\ moveHistory = <<>>
    /\ redoHistory = <<>>
    /\ initialTubesRef = <<>>
    /\ solverCacheRef = {}
    /\ solverTimeoutRef = Null
    /\ starts = 0
    /\ pendingHints = <<>>
    /\ starsArgs = NoStarsArgs
    /\ starsResult = 0
    /\ genArgs = NoGenArgs
    /\ genLevel = NoLevel

CallCanPour ==
    /\ phase = "input"
    /\ FindTube(board, fromTubeId) # 0
    /\ FindTube(board, toTubeId) # 0
    /\ canPourResult' = canPour(board[FindTube(board, fromTubeId)],
                                board[FindTube(board, toTubeId)])
    /\ phase' = "canPour"
    /\ UNCHANGED <<board, fromTubeId, toTubeId, pourResult, argAfter, completeResult,
                   solverVars, starVars, levelVars, sessionVars>>

CallExecutePour ==
    /\ phase = "input"
    /\ pourResult' = executePour(board, fromTubeId, toTubeId)
    /\ argAfter' = ArgumentAfterPour(board, fromTubeId, toTubeId)
    /\ phase' = "executePour"
    /\ UNCHANGED <<board, fromTubeId, toTubeId, canPourResult, completeResult,
                   solverVars, starVars, levelVars, sessionVars>>

CallIsLevelComplete ==
    /\ phase = "input"
    /\ completeResult' = isLevelComplete(board)
    /\ phase' = "isLevelComplete"
    /\ UNCHANGED <<board, fromTubeId, toTubeId, canPourResult, pourResult, argAfter,
                   solverVars, starVars, levelVars, sessionVars>>

PourNext ==
    \/ CallCanPour
    \/ CallExecutePour
    \/ CallIsLevelComplete

SpecPour == PourInit /\ [][PourNext]_vars

----------------------------------------------------------------------------
(* The solver applied to every board, with the default iteration bound and *)
(* with a small one.                                                       *)

SolverInit ==
    /\ board \in SolverBoards
    /\ solveBound \in {SmallIterations, DefaultMaxIterations}
    /\ solveResult = NoSolveResult
    /\ phase = "input"
    /\ fromTubeId = NoTubeId
    /\ toTubeId = NoTubeId
    /\ canPourResult = NoCanPour
    /\ pourResult = PourFailure(NoMessage)
    /\ argAfter = <<>>
    /\ completeResult = FALSE
    /\ LEVELS = <<>>
    /\ gameState = <<>>
    /\ moveHistory = <<>>
    /\ redoHistory = <<>>
    /\ initialTubesRef = <<>>
    /\ solverCacheRef = {}
    /\ solverTimeoutRef = Null
    /\ starts = 0
    /\ pendingHints = <<>>
    /\ starsArgs = NoStarsArgs
    /\ starsResult = 0
    /\ genArgs = NoGenArgs
    /\ genLevel = NoLevel

CallFindOptimalSolution ==
    /\ phase = "input"
    /\ solveResult' = findOptimalSolution(board, solveBound)
    /\ phase' = "findOptimalSolution"
    /\ UNCHANGED <<board, solveBound, pourVars, starVars, levelVars, sessionVars>>

SolverNext == CallFindOptimalSolution

SpecSolver == SolverInit /\ [][SolverNext]_vars

----------------------------------------------------------------------------
(* The scoring harness: calculateStars on every threshold table of small   *)
(* caps, ordered or not, and on move counts and times around the caps.     *)

StarCaps == 0..MaxStarCap

StarRequirements == [moves : StarCaps, timeSeconds : StarCaps]

StarTables == [five : StarRequirements, four : StarRequirements,
               three : StarRequirements, two : StarRequirements,
               one : StarRequirements]

\* Move counts and times: below zero, within the caps, above every cap.
StarUsages == (0 - 1)..(MaxStarCap + 1)

StarsInit ==
    /\ starsArgs \in [moves : StarUsages, timeUsedSeconds : StarUsages,
                      starThresholds : StarTables]
    /\ starsResult = 0
    /\ genArgs = NoGenArgs
    /\ genLevel = NoLevel
    /\ phase = "input"
    /\ board = <<>>
    /\ fromTubeId = NoTubeId
    /\ toTubeId = NoTubeId
    /\ canPourResult = NoCanPour
    /\ pourResult = PourFailure(NoMessage)
    /\ argAfter = <<>>
    /\ completeResult = FALSE
    /\ solveBound = 0
    /\ solveResult = NoSolveResult
    /\ LEVELS = <<>>
    /\ gameState = <<>>
    /\ moveHistory = <<>>
    /\ redoHistory = <<>>
    /\ initialTubesRef = <<>>
    /\ solverCacheRef = {}
    /\ solverTimeoutRef = Null
    /\ starts = 0
    /\ pendingHints = <<>>

CallCalculateStars ==
    /\ phase = "input"
    /\ starsResult' = calculateStars(starsArgs.moves, starsArgs.timeUsedSeconds,
                                     starsArgs.starThresholds)
    /\ phase' = "calculateStars"
    /\ UNCHANGED <<board, starsArgs, pourVars, solverVars, levelVars, sessionVars>>

StarsNext == CallCalculateStars

SpecStars == StarsInit /\ [][StarsNext]_vars

----------------------------------------------------------------------------
(* The level generator: generateLevel of utils/level-data.ts.              *)

\* ACCESSIBLE_COLORS.length; a colour is its index in the palette.
PaletteSize == 14

\* baseCapacity of generateLevel.
BaseCapacity == 4

\* Array.from({ length: 500 }, ...): the level ids are 1..LevelCount.
LevelCount == 500

\* interpolateRange(level, startLevel, endLevel, minValue, maxValue).
interpolateRange(level, firstLevel, lastLevel, minValue, maxValue) ==
    IF level <= firstLevel THEN minValue
    ELSE IF level >= lastLevel THEN maxValue
    ELSE JsRound(minValue * (lastLevel - firstLevel)
                    + (maxValue - minValue) * (level - firstLevel),
                 lastLevel - firstLevel)

getColorCountForLevel(levelId) ==
    IF levelId <= 50 THEN Clamp(interpolateRange(levelId, 1, 50, 2, 6), 2, 6)
    ELSE IF levelId <= 150 THEN Clamp(interpolateRange(levelId, 51, 150, 7, 8), 7, 8)
    ELSE IF levelId <= 300 THEN Clamp(interpolateRange(levelId, 151, 300, 9, 10), 9, 10)
    ELSE IF levelId <= 450 THEN 11
    ELSE 12

getContainerCountForLevel(levelId, colorCount) ==
    IF levelId <= 50
    THEN Max(Clamp(interpolateRange(levelId, 1, 50, 4, 8), 4, 8), colorCount + 1)
    ELSE IF levelId <= 150
    THEN Max(Clamp(interpolateRange(levelId, 51, 150, 9, 12), 9, 12), colorCount + 2)
    ELSE IF levelId <= 300
    THEN Max(Clamp(interpolateRange(levelId, 151, 300, 12, 13), 12, 13), colorCount + 2)
    ELSE IF levelId <= 450
    THEN Max(Clamp(interpolateRange(levelId, 301, 450, 14, 15), 14, 15), colorCount + 3)
    ELSE Max(16, colorCount + 4)

getColorOffset(levelId) == ((levelId - 1) * 3) % PaletteSize

getAccessibleColors(levelId, count) ==
    [index \in 1..Min(count, PaletteSize) |->
        (getColorOffset(levelId) + (index - 1)) % PaletteSize]

getGenerationColors(levelId, requiredColors) ==
    LET colors == getAccessibleColors(levelId, requiredColors)
    IN  IF Len(colors) = requiredColors THEN colors
        ELSE [i \in 1..requiredColors |-> (i - 1) % PaletteSize]

\* A variant of the shuffle loop that copies position j to position i
\* without exchanging the two.
RECURSIVE ShuffleDownOverwriting(_, _, _)
ShuffleDownOverwriting(copy, i, draw) ==
    IF i <= 0 THEN copy
    ELSE LET j == (draw * (i + 1)) \div ShuffleDraws
         IN  ShuffleDownOverwriting([copy EXCEPT ![i + 1] = copy[j + 1]], i - 1, draw)

\* The loop of shuffleArray from position i (0-based) down, Math.random
\* returning draw / ShuffleDraws at every call.
RECURSIVE ShuffleDown(_, _, _)
ShuffleDown(copy, i, draw) ==
    IF i <= 0 THEN copy
    ELSE LET j == (draw * (i + 1)) \div ShuffleDraws
         IN  ShuffleDown([copy EXCEPT ![i + 1] = copy[j + 1], ![j + 1] = copy[i + 1]],
                         i - 1, draw)

shuffleArray(array, draw) == ShuffleDown(array, Len(array) - 1, draw)

\* applySpecialContainers: the first empty tube of the levels 151 to 300 is
\* the starter tube.
applySpecialContainers(levelId, emptyTubes) ==
    IF Len(emptyTubes) = 0 THEN emptyTubes
    ELSE IF levelId >= 151 /\ levelId <= 300
    THEN [emptyTubes EXCEPT ![1] = [@ EXCEPT !.locked = FALSE,
                                             !.unlockCondition = NoCondition,
                                             !.starter = TRUE]]
    ELSE emptyTubes

\* generateLevel(id), the shuffle drawing draw / ShuffleDraws.  A field the
\* code leaves undefined is FALSE or NoCondition here.
generateLevel(id, draw) ==
    LET numColors == getColorCountForLevel(id)
        totalContainers == getContainerCountForLevel(id, numColors)
        numFilledTubes == numColors
        numEmptyTubes == Max(1, totalContainers - numFilledTubes)
        selectedColors == getGenerationColors(id, numColors)
        allSegments ==
            [n \in 1..(Len(selectedColors) * BaseCapacity) |->
                [id |-> <<"seg", id, (n - 1) \div BaseCapacity, (n - 1) % BaseCapacity>>,
                 color |-> selectedColors[((n - 1) \div BaseCapacity) + 1]]]
        shuffledSegments == shuffleArray(allSegments, draw)
        tubes ==
            [i \in 1..numFilledTubes |->
                [id |-> <<"tube", id, i>>,
                 capacity |-> BaseCapacity,
                 segments |-> JsSlice(shuffledSegments, (i - 1) * BaseCapacity,
                                      (i - 1) * BaseCapacity + BaseCapacity),
                 locked |-> FALSE,
                 unlockCondition |-> NoCondition,
                 starter |-> FALSE]]
        emptyTubes ==
            [i \in 1..numEmptyTubes |->
                [id |-> <<"tube", id, numFilledTubes + i>>,
                 capacity |-> BaseCapacity,
                 segments |-> <<>>,
                 locked |-> FALSE,
                 unlockCondition |-> NoCondition,
                 starter |-> FALSE]]
        limits == LevelLimits(id, numColors, numEmptyTubes)
    IN  [id |-> id,
         starThresholds |-> limits.starThresholds,
         tubes |-> tubes \o applySpecialContainers(id, emptyTubes),
         moveLimit |-> limits.moveLimit,
         timeLimitSeconds |-> limits.timeLimitSeconds,
         randomizeOnStart |-> id >= 200]

----------------------------------------------------------------------------
(* The level harness: generateLevel on every level id, for each draw of    *)
(* the shuffle.                                                            *)

LevelsInit ==
    /\ genArgs \in [id : 1..LevelCount, draw : 0..(ShuffleDraws - 1)]
    /\ genLevel = NoLevel
    /\ starsArgs = NoStarsArgs
    /\ starsResult = 0
    /\ phase = "input"
    /\ board = <<>>
    /\ fromTubeId = NoTubeId
    /\ toTubeId = NoTubeId
    /\ canPourResult = NoCanPour
    /\ pourResult = PourFailure(NoMessage)
    /\ argAfter = <<>>
    /\ completeResult = FALSE
    /\ solveBound = 0
    /\ solveResult = NoSolveResult
    /\ LEVELS = <<>>
    /\ gameState = <<>>
    /\ moveHistory = <<>>
    /\ redoHistory = <<>>
    /\ initialTubesRef = <<>>
    /\ solverCacheRef = {}
    /\ solverTimeoutRef = Null
    /\ starts = 0
    /\ pendingHints = <<>>

CallGenerateLevel ==
    /\ phase = "input"
    /\ genLevel' = generateLevel(genArgs.id, genArgs.draw)
    /\ phase' = "generateLevel"
    /\ UNCHANGED <<board, genArgs, pourVars, solverVars, starVars, sessionVars>>

LevelsNext == CallGenerateLevel

SpecLevels == LevelsInit /\ [][LevelsNext]_vars

----------------------------------------------------------------------------
(* Notions the properties are stated with, defined apart from the code.    *)

\* The places <<tube index, position>> of a board.
Places(tubes) ==
    UNION {{<<i, k>> : k \in 1..Len(tubes[i].segments)} : i \in 1..Len(tubes)}

SegmentCount(tubes) == Cardinality(Places(tubes))

ColorCount(tubes, color) ==
    Cardinality({p \in Places(tubes) : tubes[p[1]].segments[p[2]].color = color})

SegmentIds(tubes) == {tubes[p[1]].segments[p[2]].id : p \in Places(tubes)}

\* No segment id occurs at two places of the board.
DistinctSegmentIds(tubes) == Cardinality(SegmentIds(tubes)) = SegmentCount(tubes)

ColorsOf(segments) == {segments[k].color : k \in 1..Len(segments)}

\* The length of the maximal run of segments at the top of a non-empty
\* stack that share the top segment's colour.
TopRunLength(segments) ==
    LET n == Len(segments)
    IN  CHOOSE r \in 1..n :
            /\ \A k \in (n - r + 1)..n : segments[k].color = segments[n].color
            /\ r = n \/ segments[n - r].color # segments[n].color

\* The harness's source and target tubes (when both ids are on the board).
SourceIndex == FindTube(board, fromTubeId)
TargetIndex == FindTube(board, toTubeId)
BothOnBoard == SourceIndex # 0 /\ TargetIndex # 0
PourSucceeded == phase = "executePour" /\ pourResult.success

----------------------------------------------------------------------------
(* The pour engine's properties.                                           *)

\* C1: a successful executePour leaves the total number of segments and the
\* number of segments of each colour unchanged, for full and partial pours.
C1_PourConservesSegments ==
    PourSucceeded =>
        /\ SegmentCount(pourResult.updatedTubes) = SegmentCount(board)
        /\ \A c \in Colors :
              ColorCount(pourResult.updatedTubes, c) = ColorCount(board, c)

\* C1's case: a partial pour (the target lacks room for the whole run).
C1_Witness_PartialPour ==
    /\ PourSucceeded
    /\ Len(pourResult.movedSegments) < TopRunLength(board[SourceIndex].segments)

\* C3: for unlocked A and B, canPour(A, B) is allowed iff A is non-empty,
\* the ids differ, B has room, and B is empty or the top colours match.
C3_CanPourRule ==
    (/\ phase = "canPour"
     /\ ~board[SourceIndex].locked
     /\ ~board[TargetIndex].locked) =>
        LET A == board[SourceIndex]
            B == board[TargetIndex]
        IN  canPourResult.canPour <=>
                /\ Len(A.segments) > 0
                /\ A.id # B.id
                /\ Len(B.segments) < B.capacity
                /\ \/ Len(B.segments) = 0
                   \/ A.segments[Len(A.segments)].color
                        = B.segments[Len(B.segments)].color

\* C3's case: an allowed pour onto a non-empty target of the same top colour.
C3_Witness_MatchingTop ==
    /\ phase = "canPour"
    /\ ~board[SourceIndex].locked
    /\ ~board[TargetIndex].locked
    /\ canPourResult.canPour
    /\ Len(board[TargetIndex].segments) > 0

\* C4: canPour is not allowed and executePour declines whenever the source
\* or the target is locked.
C4_LockedTubeNeverPours ==
    /\ (/\ phase = "canPour"
        /\ board[SourceIndex].locked \/ board[TargetIndex].locked)
            => ~canPourResult.canPour
    /\ (/\ phase = "executePour"
        /\ BothOnBoard
        /\ board[SourceIndex].locked \/ board[TargetIndex].locked)
            => ~pourResult.success

\* C5: a successful pour transfers exactly min(r, s) segments: the source
\* shrinks by it, the target grows by it, the other tubes keep their contents.
C5_PourTransfersMinRunSpace ==
    PourSucceeded =>
        LET A == board[SourceIndex]
            B == board[TargetIndex]
            n == Min(TopRunLength(A.segments), B.capacity - Len(B.segments))
            after == pourResult.updatedTubes
        IN  /\ Len(pourResult.movedSegments) = n
            /\ Len(after) = Len(board)
            /\ Len(after[SourceIndex].segments) = Len(A.segments) - n
            /\ Len(after[TargetIndex].segments) = Len(B.segments) + n
            /\ \A j \in 1..Len(board) :
                  j \notin {SourceIndex, TargetIndex} => after[j] = board[j]

\* C5's case: a whole run of two segments poured while a third tube holds
\* segments of its own.
C5_Witness_WholeRun ==
    /\ PourSucceeded
    /\ Len(pourResult.movedSegments) = 2
    /\ TopRunLength(board[SourceIndex].segments) = 2
    /\ \E j \in 1..Len(board) :
          j \notin {SourceIndex, TargetIndex} /\ Len(board[j].segments) > 0

\* C6: the segments appended to the target, and returned as movedSegments,
\* are by identity the segments removed from the top of the source, in the
\* same order; no segment id occurs twice afterwards and none disappears.
C6_PourMovesSegmentsByIdentity ==
    PourSucceeded =>
        LET A == board[SourceIndex]
            B == board[TargetIndex]
            after == pourResult.updatedTubes
            moved == pourResult.movedSegments
        IN  /\ after[TargetIndex].segments = B.segments \o moved
            /\ A.segments = after[SourceIndex].segments \o moved
            /\ DistinctSegmentIds(after)
            /\ SegmentIds(after) = SegmentIds(board)

\* C7: a pour that canPour does not allow, or that names an absent id, is
\* declined with a reason and no updated tube list, the board it was given
\* is unchanged, and executePour never throws.
C7_DeclinedPourChangesNothing ==
    /\ phase = "executePour" => ~pourResult.threw
    /\ (/\ phase = "executePour"
        /\ \/ ~BothOnBoard
           \/ ~canPour(board[SourceIndex], board[TargetIndex]).canPour) =>
            /\ ~pourResult.success
            /\ pourResult.message # NoMessage
            /\ ~pourResult.hasUpdatedTubes
            /\ argAfter = board

\* C7's case: a pour declined for a colour mismatch.
C7_Witness_ColorMismatch ==
    /\ phase = "executePour"
    /\ BothOnBoard
    /\ pourResult.message = "Colors do not match"

\* C8: isLevelComplete is true iff every tube is empty or both full and
\* single-coloured.
C8_CompleteIffEmptyOrFullUniform ==
    phase = "isLevelComplete" =>
        (completeResult <=>
            \A i \in 1..Len(board) :
                \/ Len(board[i].segments) = 0
                \/ /\ Len(board[i].segments) = board[i].capacity
                   /\ Cardinality(ColorsOf(board[i].segments)) = 1)

\* C8's case: a complete board with a filled tube and an empty one.
C8_Witness_CompleteBoard ==
    /\ phase = "isLevelComplete"
    /\ completeResult
    /\ \E i \in 1..Len(board) : Len(board[i].segments) = 2
    /\ \E i \in 1..Len(board) : Len(board[i].segments) = 0

----------------------------------------------------------------------------
(* The solver's properties.                                                *)

\* The moves replayed in order with executePour: whether every pour
\* succeeded, and the board reached.
RECURSIVE Replay(_, _, _)
Replay(tubes, moves, k) ==
    IF k > Len(moves) THEN [ok |-> TRUE, tubes |-> tubes]
    ELSE LET pr == executePour(tubes, moves[k].fromTubeId, moves[k].toTubeId)
         IN  IF pr.success THEN Replay(pr.updatedTubes, moves, k + 1)
             ELSE [ok |-> FALSE, tubes |-> tubes]

\* The boards one successful executePour away.
PourSuccessors(tubes) ==
    {executePour(tubes, tubes[p[1]].id, tubes[p[2]].id).updatedTubes :
        p \in {q \in (1..Len(tubes)) \X (1..Len(tubes)) :
                 executePour(tubes, tubes[q[1]].id, tubes[q[2]].id).success}}

\* The length of a shortest sequence of successful pours from a board of
\* the frontier to a complete board, -1 when there is none: the boards are
\* explored a layer at a time.
RECURSIVE ShortestFrom(_, _, _)
ShortestFrom(frontier, seen, depth) ==
    IF \E b \in frontier : isLevelComplete(b) THEN depth
    ELSE LET next == UNION {PourSuccessors(b) : b \in frontier} \ seen
         IN  IF next = {} THEN -1
             ELSE ShortestFrom(next, seen \cup next, depth + 1)

ShortestSolution(tubes) == ShortestFrom({tubes}, {tubes}, 0)

Solved == phase = "findOptimalSolution" /\ solveResult.solved

\* C9: when findOptimalSolution returns solved:true, replaying its moves in
\* order with executePour from the given board makes every pour succeed and
\* ends on a board satisfying isLevelComplete.
C9_SolutionReplaysToCompletion ==
    Solved =>
        LET replay == Replay(board, solveResult.moves, 1)
        IN  /\ replay.ok
            /\ isLevelComplete(replay.tubes)

\* C9's case: a solution of three moves or more on a board with a locked
\* tube.
C9_Witness_ThreeMoves ==
    /\ Solved
    /\ Len(solveResult.moves) >= 3
    /\ \E i \in 1..Len(board) : board[i].locked

\* C10: on a board without locked tubes a solved:true result has minimum
\* length (no shorter sequence of successful pours completes the board), and
\* an already complete board gives 0 moves and 0 iterations.
C10_SolutionIsShortest ==
    (/\ Solved
     /\ \A i \in 1..Len(board) : ~board[i].locked) =>
        /\ Len(solveResult.moves) = ShortestSolution(board)
        /\ isLevelComplete(board) =>
              Len(solveResult.moves) = 0 /\ solveResult.iterations = 0

----------------------------------------------------------------------------
(* Claims about the session controller.                                    *)

\* Every board the session holds: the current one, the initial one, and the
\* boards of the undo and redo snapshots.
SessionBoards ==
    {gameState.tubes, initialTubesRef}
        \cup {moveHistory[k].tubes : k \in 1..Len(moveHistory)}
        \cup {redoHistory[k].tubes : k \in 1..Len(redoHistory)}

WithinCapacity(tubes) ==
    \A i \in 1..Len(tubes) : Len(tubes[i].segments) <= tubes[i].capacity

\* C2: the level templates keeping every tube within its capacity, every
\* tube of every session state reached by startLevel, selectTube, undoMove,
\* redoMove and resetLevel holds at most capacity segments, so that no pour
\* applied in a session overfills a tube.
C2_SegmentsWithinCapacity ==
    (\A k \in 1..Len(LEVELS) : WithinCapacity(LEVELS[k].tubes))
        => \A tubes \in SessionBoards : WithinCapacity(tubes)

\* A session in which the last pour was cut short by the target's capacity:
\* the target is now full, it held less before, and the source still shows
\* the colour it poured.
C2_Witness_PourFilledTarget ==
    /\ Len(moveHistory) > 0
    /\ \A k \in 1..Len(LEVELS) : WithinCapacity(LEVELS[k].tubes)
    /\ \E i, j \in 1..Len(gameState.tubes) :
        LET now == gameState.tubes
            before == moveHistory[Len(moveHistory)].tubes
        IN  /\ i # j
            /\ Len(now[i].segments) = now[i].capacity
            /\ Len(before[i].segments) < Len(now[i].segments)
            /\ Len(before[j].segments) > Len(now[j].segments)
            /\ Len(now[j].segments) > 0
            /\ now[j].segments[Len(now[j].segments)].color
                    = now[i].segments[Len(now[i].segments)].color

----------------------------------------------------------------------------
(* Claims about the solver's iteration bound.                              *)

\* C11: findOptimalSolution called with the bound maxIterations returns an
\* iterations count of at most maxIterations, and a result that is not
\* solved has an empty move list.
C11_IterationsWithinBound ==
    phase = "findOptimalSolution" =>
        /\ solveResult.iterations <= solveBound
        /\ ~solveResult.solved => solveResult.moves = <<>>

----------------------------------------------------------------------------
(* Claims about undo and redo.                                             *)

\* The lock flags of a board, tube by tube.
LockFlags(tubes) == [i \in 1..Len(tubes) |-> tubes[i].locked]

\* C12: from any session state with a non-empty undo history, undoMove
\* followed at once by redoMove gives back the tubes (contents and lock
\* flags), the move count, the stars, isComplete and isFailed of the state
\* before the undo, and both histories have the lengths they had.
C12_UndoThenRedoRestores ==
    Len(moveHistory) > 0 =>
        LET after == redoMove(undoMove(Histories))
        IN  /\ after.gameState.tubes = gameState.tubes
            /\ LockFlags(after.gameState.tubes) = LockFlags(gameState.tubes)
            /\ after.gameState.moves = gameState.moves
            /\ after.gameState.stars = gameState.stars
            /\ after.gameState.isComplete = gameState.isComplete
            /\ after.gameState.isFailed = gameState.isFailed
            /\ Len(after.moveHistory) = Len(moveHistory)
            /\ Len(after.redoHistory) = Len(redoHistory)

\* C12's case: a completed level with stars earned, whose undo step takes
\* the completion, the stars and the last pour back before redo returns them.
C12_Witness_UndoOfCompletion ==
    /\ Len(moveHistory) > 0
    /\ gameState.isComplete
    /\ gameState.stars > 0
    /\ ~undoMove(Histories).gameState.isComplete
    /\ undoMove(Histories).gameState.tubes # gameState.tubes

\* A step of selectTube that applied a pour: the undo history grew.
PourStep == SelectTube /\ Len(moveHistory') = Len(moveHistory) + 1

\* The game state and the histories after the step.
HistoriesAfter == [gameState |-> gameState', moveHistory |-> moveHistory',
                   redoHistory |-> redoHistory']

\* C13: undoMove right after a successful pour through selectTube gives back
\* the tubes (contents and lock flags), the move count, isComplete and
\* isFailed that held before the pour, takes one entry off the undo history
\* and puts one entry on the redo history.
C13_PourThenUndoRestores ==
    [][PourStep =>
        LET undone == undoMove(HistoriesAfter)
        IN  /\ undone.gameState.tubes = gameState.tubes
            /\ LockFlags(undone.gameState.tubes) = LockFlags(gameState.tubes)
            /\ undone.gameState.moves = gameState.moves
            /\ undone.gameState.isComplete = gameState.isComplete
            /\ undone.gameState.isFailed = gameState.isFailed
            /\ Len(undone.moveHistory) = Len(moveHistory') - 1
            /\ Len(undone.redoHistory) = Len(redoHistory') + 1]_vars

\* C13's case: the state after a pour that unlocked a tube, so that the undo
\* has a lock flag to restore.
C13_Witness_PourUnlockedTube ==
    /\ Len(moveHistory) > 0
    /\ redoHistory = <<>>
    /\ gameState.moves = moveHistory[Len(moveHistory)].moves + 1
    /\ \E i \in 1..Len(gameState.tubes) :
        /\ moveHistory[Len(moveHistory)].tubes[i].locked
        /\ ~gameState.tubes[i].locked

\* A step in which the timer of the oldest pending hint request fires.
ComputeHintStep ==
    /\ Len(pendingHints) > 0
    /\ pendingHints' = Tail(pendingHints)

\* C14: a hint whose request was made before the latest startLevel or
\* resetLevel is discarded when its computation runs: the step leaves
\* hintMove, the coin balance and the count of hints used as they were.
C14_StaleHintDiscarded ==
    [][(ComputeHintStep /\ pendingHints[1].attempt # starts) =>
            /\ gameState'.hintMove = gameState.hintMove
            /\ gameState'.coinBalance = gameState.coinBalance
            /\ gameState'.hintsUsed = gameState.hintsUsed]_vars

\* A step in which the par timer set by startLevel fires.
ParTimerStep ==
    /\ solverTimeoutRef # Null
    /\ solverTimeoutRef' = Null

\* The par of a board, as the session's solver computes it.
ParOf(tubes) ==
    LET solution == findOptimalSolution(tubes, SessionMaxIterations)
    IN  IF solution.solved THEN Some(Len(solution.moves)) ELSE Null

\* C15: whenever the par timer fires, it is the timer of the most recent
\* level start: it holds the current level and the initial board of that
\* start, and a value it writes to optimalMoveCount is the par of that board.
C15_OnlyLatestParApplied ==
    [][ParTimerStep =>
            /\ solverTimeoutRef[1].levelId = gameState.currentLevel
            /\ solverTimeoutRef[1].initialClone = initialTubesRef
            /\ gameState'.optimalMoveCount # gameState.optimalMoveCount =>
                    gameState'.optimalMoveCount = ParOf(initialTubesRef)]_vars

\* After a second level start the timer fired and wrote the par of the
\* board of that start.
C15_Witness_ParAfterRestart ==
    /\ starts = 2
    /\ gameState.currentLevel = 3
    /\ solverTimeoutRef = Null
    /\ moveHistory = <<>>
    /\ redoHistory = <<>>
    /\ gameState.optimalMoveCount = Some(2)
    /\ Cardinality(solverCacheRef) = 1

\* C16: once isComplete is true, every step other than a level start or
\* reset leaves the session complete with the same tubes and move count;
\* and isComplete becomes true only in a session that has a level loaded and
\* is not failed.
C16_CompleteIsTerminal ==
    [][/\ (gameState.isComplete /\ starts' = starts) =>
            /\ gameState'.isComplete
            /\ gameState'.tubes = gameState.tubes
            /\ gameState'.moves = gameState.moves
       /\ (~gameState.isComplete /\ gameState'.isComplete) =>
            /\ gameState.currentLevel # 0
            /\ ~gameState.isFailed]_vars

\* The move limit of the level being played.
CurrentMoveLimit == LEVELS[FindLevel(gameState.currentLevel)].moveLimit

\* C17: the successful pour that brings the move count to the move limit
\* of the level without completing the board leaves the session failed.
C17_MoveLimitFails ==
    [][(/\ FindLevel(gameState.currentLevel) # 0
        /\ gameState'.moves = gameState.moves + 1
        /\ gameState'.moves = CurrentMoveLimit
        /\ ~gameState'.isComplete) => gameState'.isFailed]_vars

\* The tubes of a board without their segments.
EmptiedTubes(tubes) == [i \in 1..Len(tubes) |-> [tubes[i] EXCEPT !.segments = <<>>]]

\* C18: resetLevel leaves the session startLevel of the current level
\* leaves, whatever was played before: no moves, empty histories, not
\* complete, not failed, nothing selected, no hint, no hint used, the coin
\* balance and the progress kept, and the tubes of the level template (its
\* very contents and lock flags when the level is not randomized, the same
\* tubes holding the same number of segments of each colour when it is).
C18_ResetRestartsLevel ==
    [][(ResetLevel /\ FindLevel(gameState.currentLevel) # 0) =>
            LET level == LEVELS[FindLevel(gameState.currentLevel)]
                after == gameState'
            IN  /\ after.currentLevel = gameState.currentLevel
                /\ after.moves = 0
                /\ after.stars = 0
                /\ moveHistory' = <<>>
                /\ redoHistory' = <<>>
                /\ ~after.isComplete
                /\ ~after.isFailed
                /\ after.selectedTube = NoTubeId
                /\ after.hintMove = Null
                /\ after.hintsUsed = 0
                /\ after.coinBalance = gameState.coinBalance
                /\ after.userProgress = gameState.userProgress
                /\ after.tubes \in PreparedTubes(level)
                /\ EmptiedTubes(after.tubes) = EmptiedTubes(level.tubes)
                /\ \A color \in Colors :
                        ColorCount(after.tubes, color) = ColorCount(level.tubes, color)
                /\ ~level.randomizeOnStart => after.tubes = level.tubes]_vars

\* A hint was bought (5 of the 10 stored coins) and level 3 completed by
\* pours (10 coins), and then the level was restarted: the board is the
\* template again, no hint is used, the coins and the progress stay.
C18_Witness_ResetAfterCompletion ==
    /\ starts = 2
    /\ gameState.currentLevel = 3
    /\ gameState.userProgress[3].completed
    /\ gameState.coinBalance = 15
    /\ gameState.hintsUsed = 0
    /\ gameState.moves = 0
    /\ moveHistory = <<>>
    /\ gameState.tubes = LEVELS[FindLevel(3)].tubes

\* The caps of tier n of a threshold table.
TierCaps(starThresholds, n) ==
    CASE n = 5 -> starThresholds.five
      [] n = 4 -> starThresholds.four
      [] n = 3 -> starThresholds.three
      [] n = 2 -> starThresholds.two
      [] n = 1 -> starThresholds.one

\* The tiers whose two caps a usage meets.
TiersMet(moves, timeUsedSeconds, starThresholds) ==
    {n \in 1..5 :
        /\ TierCaps(starThresholds, n).moves >= Max(0, moves)
        /\ TierCaps(starThresholds, n).timeSeconds >= Max(0, timeUsedSeconds)}

\* C19: calculateStars returns the best tier whose move cap and time cap
\* both cover the usage (negative usage counting as 0), and 0 when no tier
\* does.
C19_StarsAreFirstTierMet ==
    phase = "calculateStars" =>
        LET met == TiersMet(starsArgs.moves, starsArgs.timeUsedSeconds,
                            starsArgs.starThresholds)
        IN  /\ met = {} => starsResult = 0
            /\ met # {} => /\ starsResult \in met
                           /\ \A n \in met : n <= starsResult

\* A negative move count is scored as 0 moves, the tiers 5 and 4 fail on
\* time alone, and tier 3 is the first one met.
C19_Witness_ThirdTierFirstMet ==
    /\ phase = "calculateStars"
    /\ starsArgs.moves < 0
    /\ starsArgs.timeUsedSeconds > 0
    /\ starsArgs.starThresholds.five.moves >= 0
    /\ starsArgs.starThresholds.four.moves >= 0
    /\ starsArgs.starThresholds.two.timeSeconds >= starsArgs.timeUsedSeconds
    /\ starsResult = 3

\* C20: for every threshold table, ordered or not, a usage with no fewer
\* moves and no less time than the one scored earns no more stars.
C20_StarsMonotonic ==
    phase = "calculateStars" =>
        \A moves2 \in StarUsages, time2 \in StarUsages :
            (starsArgs.moves <= moves2 /\ starsArgs.timeUsedSeconds <= time2) =>
                starsResult >= calculateStars(moves2, time2, starsArgs.starThresholds)

\* A table whose tiers are not ordered (tier 5 allows more moves than tier
\* 1), on which one move more costs stars.
C20_Witness_UnorderedTable ==
    /\ phase = "calculateStars"
    /\ starsArgs.starThresholds.five.moves > starsArgs.starThresholds.one.moves
    /\ starsArgs.starThresholds.four.timeSeconds
            < starsArgs.starThresholds.three.timeSeconds
    /\ starsResult > calculateStars(starsArgs.moves + 1, starsArgs.timeUsedSeconds,
                                    starsArgs.starThresholds)

\* A step in which a successful pour completes the level.
CompletingPourStep ==
    /\ gameState'.moves = gameState.moves + 1
    /\ ~gameState.isComplete
    /\ gameState'.isComplete

\* The baseline of the reward: the solver's move count for the initial board
\* of the attempt when it solves that board, else the five-star move cap.
RewardBaseline ==
    LET solution == findOptimalSolution(initialTubesRef, SessionMaxIterations)
    IN  IF solution.solved THEN Len(solution.moves)
        ELSE LEVELS[FindLevel(gameState.currentLevel)].starThresholds.five.moves

\* C21: the pour that completes the level with m moves used records the
\* reward clamp(10 - max(0, m - baseline), 1, 10) in lastCoinsEarned: a
\* number from 1 to 10 that is 10 exactly when m <= baseline.
C21_RewardFromBaseline ==
    [][CompletingPourStep =>
            LET m == gameState'.moves
                over == IF m > RewardBaseline THEN m - RewardBaseline ELSE 0
                reward == gameState'.lastCoinsEarned
            IN  /\ reward = IF 10 - over < 1 THEN 1 ELSE 10 - over
                /\ reward \in 1..10
                /\ reward = 10 <=> m <= RewardBaseline]_vars

\* Level 2 starts on a board the solver solves in no move; the pour that
\* completes it is one move over that baseline and earns 9.
C21_Witness_OneMoveOverBaseline ==
    /\ gameState.isComplete
    /\ gameState.currentLevel = 2
    /\ gameState.moves = 1
    /\ gameState.lastCoinsEarned = 9

\* A container is sorted when it is empty, or full and of one colour.
SortedContainer(tube) ==
    \/ Len(tube.segments) = 0
    \/ /\ Len(tube.segments) = tube.capacity
       /\ \A k \in 1..Len(tube.segments) : tube.segments[k].color = tube.segments[1].color

\* No tube of the board is still locked on a sortedTubes requirement that
\* the number of sorted containers of the board meets.
NoMetLock(tubes) ==
    LET sorted == Cardinality({i \in 1..Len(tubes) : SortedContainer(tubes[i])})
    IN  \A i \in 1..Len(tubes) :
            ~(/\ tubes[i].locked
              /\ tubes[i].unlockCondition.type = "sortedTubes"
              /\ tubes[i].unlockCondition.requirement <= sorted)

\* The states the solver pushed on its queue, after the one it was created
\* with.
PushedStates ==
    LET queue == solverQueue(board, solveBound)
    IN  {queue[k].tubes : k \in 2..Len(queue)}

\* The boards selectTube writes after a successful pour on the board: the
\* updated tubes after its unlock pass.
PouredSessionBoards ==
    {SessionUnlocks(executePour(board, board[i].id, board[j].id).updatedTubes) :
        <<i, j>> \in {p \in (1..Len(board)) \X (1..Len(board)) :
                        LET result == executePour(board, board[p[1]].id, board[p[2]].id)
                        IN  result.success /\ result.hasUpdatedTubes}}

BoardColors(tubes) ==
    {tubes[i].segments[k].color :
        <<i, k>> \in {p \in (1..Len(tubes)) \X (1..BaseCapacity) :
                        p[2] <= Len(tubes[p[1]].segments)}}

\* How many segments of a board have the colour.
SegmentsOfColor(tubes, color) ==
    Cardinality({p \in (1..Len(tubes)) \X (1..BaseCapacity) :
                    /\ p[2] <= Len(tubes[p[1]].segments)
                    /\ tubes[p[1]].segments[p[2]].color = color})

\* C23: the template generated for a level id has numColors full tubes of
\* capacity 4, every colour of the level on exactly 4 segments, every other
\* tube empty, no tube over its capacity, and at least numColors + 1 tubes,
\* whatever the shuffle drew.
C23_GeneratedTemplateShape ==
    phase = "generateLevel" =>
        LET tubes == genLevel.tubes
            numColors == getColorCountForLevel(genArgs.id)
            filled == {i \in 1..Len(tubes) : Len(tubes[i].segments) > 0}
        IN  /\ Cardinality(filled) = numColors
            /\ \A i \in filled : /\ tubes[i].capacity = 4
                                 /\ Len(tubes[i].segments) = 4
            /\ Cardinality(BoardColors(tubes)) = numColors
            /\ \A color \in BoardColors(tubes) : SegmentsOfColor(tubes, color) = 4
            /\ \A i \in 1..Len(tubes) : Len(tubes[i].segments) <= tubes[i].capacity
            /\ Len(tubes) >= numColors + 1

\* The last level: twelve colours, and the shuffle left a tube with more
\* than one colour.
C23_Witness_MixedLastLevel ==
    /\ phase = "generateLevel"
    /\ genArgs.id = 500
    /\ Cardinality(BoardColors(genLevel.tubes)) = 12
    /\ \E i \in 1..Len(genLevel.tubes) :
            Cardinality({genLevel.tubes[i].segments[k].color :
                            k \in 1..Len(genLevel.tubes[i].segments)}) > 1

\* C24: the star thresholds generated for a level id are ordered: the move
\* caps rise from five stars to one star and end at most at the move limit,
\* the time caps rise from five stars to one star and end at most at the
\* time limit.
C24_GeneratedThresholdsOrdered ==
    phase = "generateLevel" =>
        LET t == genLevel.starThresholds
        IN  /\ t.five.moves <= t.four.moves
            /\ t.four.moves <= t.three.moves
            /\ t.three.moves <= t.two.moves
            /\ t.two.moves <= t.one.moves
            /\ t.one.moves <= genLevel.moveLimit
            /\ t.five.timeSeconds <= t.four.timeSeconds
            /\ t.four.timeSeconds <= t.three.timeSeconds
            /\ t.three.timeSeconds <= t.two.timeSeconds
            /\ t.two.timeSeconds <= t.one.timeSeconds
            /\ t.one.timeSeconds <= genLevel.timeLimitSeconds

\* A level whose time limit times 0.7 falls just below a half in double
\* arithmetic, with five time caps that all differ.
C24_Witness_RoundedBelowHalf ==
    /\ phase = "generateLevel"
    /\ genLevel.timeLimitSeconds = 45
    /\ genLevel.starThresholds.three.timeSeconds = 31
    /\ genLevel.starThresholds.five.timeSeconds < genLevel.starThresholds.four.timeSeconds
    /\ genLevel.starThresholds.two.timeSeconds < genLevel.starThresholds.one.timeSeconds
    /\ genLevel.starThresholds.two.moves = genLevel.moveLimit

\* ---- C25 ----

\* The ids of the tubes of a board.
TubeIds(tubes) == {tubes[i].id : i \in 1..Len(tubes)}

\* C25: whatever was queried before, the cached solver query on the board
\* of the session returns what findOptimalSolution returns on that board
\* with 350000 iterations, and the moves it returns name tubes of that
\* board.
C25_CachedQueryEqualsUncached ==
    gameState.currentLevel # 0 =>
        LET cached == computeSolutionForTubes(solverCacheRef, gameState.tubes).result
        IN  /\ cached = findOptimalSolution(gameState.tubes, SessionMaxIterations)
            /\ \A k \in 1..Len(cached.moves) :
                    /\ cached.moves[k].fromTubeId \in TubeIds(gameState.tubes)
                    /\ cached.moves[k].toTubeId \in TubeIds(gameState.tubes)

\* ---- C26 ----

\* C26: a step of the session that unlocks a tube of the current board
\* leaves that tube without an unlock condition.
C26_SessionUnlockClearsCondition ==
    [][\A i \in 1..Len(gameState.tubes) :
            (/\ Len(gameState'.tubes) = Len(gameState.tubes)
             /\ gameState'.currentLevel = gameState.currentLevel
             /\ gameState'.moves = gameState.moves + 1
             /\ gameState.tubes[i].locked
             /\ ~gameState'.tubes[i].locked)
            => gameState'.tubes[i].unlockCondition = NoCondition]_vars

\* ---- C27 ----

\* C27: within one level attempt the completion reward is added to the coin
\* balance at most once.  The redo history is emptied by every level start
\* and holds a complete snapshot only after a completion of this attempt
\* was undone, so a step of the same attempt that raises the coin balance
\* finds no complete snapshot in it.
C27_RewardOncePerAttempt ==
    [][(/\ starts' = starts
        /\ gameState'.coinBalance > gameState.coinBalance)
       => \A k \in 1..Len(redoHistory) : ~redoHistory[k].isComplete]_vars

\* ---- C28 ----

\* C28: in every session state with a level loaded the isComplete flag is
\* true exactly when the current tubes satisfy isLevelComplete.
C28_CompleteFlagMatchesBoard ==
    gameState.currentLevel # 0 =>
        (gameState.isComplete <=> isLevelComplete(gameState.tubes))

\* ---- C29 ----

\* A tap on tubeId that is a pour: a source is pending, the tapped tube is
\* another, unlocked tube of the board and executePour succeeds.
TapPours(tubeId) ==
    /\ ~gameState.isComplete
    /\ ~gameState.isFailed
    /\ gameState.selectedTube # NoTubeId
    /\ tubeId # gameState.selectedTube
    /\ FindTube(gameState.tubes, gameState.selectedTube) # 0
    /\ FindTube(gameState.tubes, tubeId) # 0
    /\ ~gameState.tubes[FindTube(gameState.tubes, tubeId)].locked
    /\ executePour(gameState.tubes, gameState.selectedTube, tubeId).success

\* The tube as the session keeps it after a pour that left sortedCount
\* sorted tubes.
UnlockedIfMet(tube, sortedCount) ==
    IF /\ tube.locked
       /\ tube.unlockCondition.type = "sortedTubes"
       /\ sortedCount >= tube.unlockCondition.requirement
    THEN [tube EXCEPT !.locked = FALSE]
    ELSE tube

\* C29: a tap that pours appends exactly one snapshot of the state before
\* the move to the undo history, empties the redo history, raises the move
\* count by one, replaces the tubes by the pour result with every met lock
\* opened, clears the selection and clears the hint.
C29_SuccessfulPourBookkeeping ==
    [][\A tubeId \in {gameState.tubes[i].id : i \in 1..Len(gameState.tubes)} :
        (TapPours(tubeId) /\ selectTube(tubeId)) =>
            LET poured == executePour(gameState.tubes, gameState.selectedTube,
                                      tubeId).updatedTubes
                last == moveHistory'[Len(moveHistory')]
            IN  /\ Len(moveHistory') = Len(moveHistory) + 1
                /\ SubSeq(moveHistory', 1, Len(moveHistory)) = moveHistory
                /\ last.tubes = gameState.tubes
                /\ last.moves = gameState.moves
                /\ last.stars = gameState.stars
                /\ last.isComplete = gameState.isComplete
                /\ redoHistory' = <<>>
                /\ gameState'.moves = gameState.moves + 1
                /\ Len(gameState'.tubes) = Len(poured)
                /\ \A i \in 1..Len(poured) :
                        gameState'.tubes[i] = UnlockedIfMet(poured[i], SortedCount(poured))
                /\ gameState'.selectedTube = NoTubeId
                /\ gameState'.hintMove = Null]_vars

\* After a hint was bought in this attempt a pour was made: the hint is
\* gone, the redo history is empty, and the pour opened a lock.
C29_Witness_PourAfterHint ==
    /\ gameState.hintsUsed > 0
    /\ gameState.hintMove = Null
    /\ gameState.selectedTube = NoTubeId
    /\ Len(moveHistory) > 0
    /\ redoHistory = <<>>
    /\ gameState.moves = moveHistory[Len(moveHistory)].moves + 1
    /\ \E i \in 1..Len(gameState.tubes) :
        /\ moveHistory[Len(moveHistory)].tubes[i].locked
        /\ ~gameState.tubes[i].locked

\* ---- C30 ----

\* The segments of every tube of a board, in order.
SegmentsOf(tubes) == [i \in 1..Len(tubes) |-> tubes[i].segments]

\* The session has so far poured exactly the first moves of the solution
\* the solver finds for the board of this attempt, the source of the next
\* move is pending, and the tap is on its target.
TapsNextSolutionMove(solution, tubeId) ==
    /\ solution.solved
    /\ gameState.moves < Len(solution.moves)
    /\ Len(moveHistory) = gameState.moves
    /\ redoHistory = <<>>
    /\ SegmentsOf(gameState.tubes)
            = SegmentsOf(Replay(initialTubesRef,
                                SubSeq(solution.moves, 1, gameState.moves), 1).tubes)
    /\ gameState.selectedTube = solution.moves[gameState.moves + 1].fromTubeId
    /\ tubeId = solution.moves[gameState.moves + 1].toTubeId

\* C30: a session started on a board for which findOptimalSolution returns
\* solved:true accepts the solution: each tap on the target of the next
\* move, with its source pending, is a pour that raises the move count by
\* one, and the session is complete after the last move.
C30_SessionAcceptsSolution ==
    [][gameState.currentLevel # 0 =>
        LET solution == findOptimalSolution(initialTubesRef, SessionMaxIterations)
        IN  \A tubeId \in {gameState.tubes[i].id : i \in 1..Len(gameState.tubes)} :
                (TapsNextSolutionMove(solution, tubeId) /\ selectTube(tubeId)) =>
                    /\ gameState'.moves = gameState.moves + 1
                    /\ (gameState'.moves = Len(solution.moves)
                            => gameState'.isComplete)]_vars

\* ---- C31 ----

\* C31: a hint that is shown is a pour the session would accept on the
\* current tubes: its source and target are tubes of the board, unlocked
\* and distinct, and executePour of it on the board succeeds.
C31_HintIsAcceptablePour ==
    gameState.hintMove # Null =>
        LET move == gameState.hintMove[1]
            sourceIndex == FindTube(gameState.tubes, move.fromTubeId)
            targetIndex == FindTube(gameState.tubes, move.toTubeId)
        IN  /\ sourceIndex # 0
            /\ targetIndex # 0
            /\ move.fromTubeId # move.toTubeId
            /\ ~gameState.tubes[sourceIndex].locked
            /\ ~gameState.tubes[targetIndex].locked
            /\ executePour(gameState.tubes, move.fromTubeId, move.toTubeId).success

\* ---- C32 ----

\* C32: the move count equals the length of the undo history in every
\* state, and an undo or a redo leaves the sum of the move count and the
\* length of the redo history as it was.
C32_MovesMatchHistories ==
    [][/\ gameState.moves = Len(moveHistory)
       /\ gameState'.moves = Len(moveHistory')
       /\ (UndoMove \/ RedoMove) =>
            gameState'.moves + Len(redoHistory')
                = gameState.moves + Len(redoHistory)]_vars

\* After an undo: one move counted, one snapshot to undo and one to redo.
C32_Witness_UndoneOnce ==
    /\ gameState.moves = 1
    /\ Len(moveHistory) = 1
    /\ Len(redoHistory) = 1

\* ---- C33 ----

\* C33: a par that is shown is the number of moves of the solution the
\* solver finds for the board the current attempt started from.
C33_ParIsOfInitialBoard ==
    (gameState.currentLevel # 0 /\ gameState.optimalMoveCount # Null) =>
        LET solution == findOptimalSolution(initialTubesRef, SessionMaxIterations)
        IN  /\ solution.solved
            /\ gameState.optimalMoveCount[1] = Len(solution.moves)

\* ---- C34 ----

\* C34: the segment ids of the board of the session are pairwise distinct
\* across all tubes.
C34_SegmentIdsDistinct ==
    \A p, q \in Places(gameState.tubes) :
        gameState.tubes[p[1]].segments[p[2]].id
            = gameState.tubes[q[1]].segments[q[2]].id => p = q

\* ---- C35 ----

\* A tap on tubeId whose pour is declined: a source is pending, the tapped
\* tube is another tube of the board and executePour does not succeed.
TapDeclined(tubeId) ==
    /\ ~gameState.isComplete
    /\ ~gameState.isFailed
    /\ gameState.selectedTube # NoTubeId
    /\ tubeId # gameState.selectedTube
    /\ FindTube(gameState.tubes, tubeId) # 0
    /\ ~executePour(gameState.tubes, gameState.selectedTube, tubeId).success

\* C35: a tap whose pour is declined clears the selection and nothing
\* else: tubes, move count, both histories, the completion flags and the
\* coin balance stay as they are.
C35_DeclinedPourClearsSelectionOnly ==
    [][\A tubeId \in {gameState.tubes[i].id : i \in 1..Len(gameState.tubes)} :
        (TapDeclined(tubeId) /\ selectTube(tubeId)) =>
            /\ gameState' = [gameState EXCEPT !.selectedTube = NoTubeId]
            /\ moveHistory' = moveHistory
            /\ redoHistory' = redoHistory]_vars

\* A source is pending after a pour and an undo, and a tap on another tube
\* of the board would be declined.
C35_Witness_DeclinedTapPending ==
    /\ Len(moveHistory) > 0
    /\ Len(redoHistory) > 0
    /\ \E tubeId \in {gameState.tubes[i].id : i \in 1..Len(gameState.tubes)} :
            /\ TapDeclined(tubeId)
            /\ ~gameState.tubes[FindTube(gameState.tubes, tubeId)].locked

\* ---- C36 ----

\* C36: while the session is complete or failed a tap on any tube id, of
\* the board or not, changes nothing: tubes, selection, move count, coin
\* balance and both histories stay as they are.
C36_TapIgnoredWhenOver ==
    [][\A tubeId \in {gameState.tubes[i].id : i \in 1..Len(gameState.tubes)}
                        \cup {AbsentTubeId} :
        ((gameState.isComplete \/ gameState.isFailed) /\ selectTube(tubeId)) =>
            /\ gameState' = gameState
            /\ moveHistory' = moveHistory
            /\ redoHistory' = redoHistory]_vars

\* A complete session that still holds a tube with segments to tap, with
\* room left in the move bound.
C36_Witness_CompleteWithFilledTube ==
    /\ gameState.isComplete
    /\ gameState.moves < MaxMoves
    /\ Len(moveHistory) > 0
    /\ gameState.coinBalance > 0
    /\ \E i \in 1..Len(gameState.tubes) :
            /\ Len(gameState.tubes[i].segments) > 0
            /\ ~gameState.tubes[i].locked

\* ---- C37 ----

\* A step in which computeHint applied its hint: the deferred computation
\* ran and changed the coins, the hints used or the hint shown.
HintAppliedStep ==
    /\ ComputeHint
    /\ gameState'.hintMove # Null
    /\ \/ gameState'.coinBalance # gameState.coinBalance
       \/ gameState'.hintsUsed # gameState.hintsUsed
       \/ gameState'.hintMove # gameState.hintMove

\* C37: at most 3 hints are used and the coin balance is never negative;
\* a hint that is applied takes exactly 5 coins and counts as exactly one
\* hint, whatever else is in flight; and a level start or reset puts the
\* hints used back to 0.
C37_HintAccounting ==
    [][/\ gameState.hintsUsed <= 3
       /\ gameState'.hintsUsed <= 3
       /\ gameState.coinBalance >= 0
       /\ gameState'.coinBalance >= 0
       /\ HintAppliedStep =>
            /\ gameState'.coinBalance = gameState.coinBalance - 5
            /\ gameState'.hintsUsed = gameState.hintsUsed + 1
       /\ (gameState'.hintsUsed # gameState.hintsUsed /\ starts' = starts)
            => HintAppliedStep
       /\ starts' # starts => gameState'.hintsUsed = 0]_vars

\* Two hints were requested for this attempt before either was computed:
\* the first was applied and took the last coins, the second is still in
\* flight.
C37_Witness_SecondHintInFlight ==
    /\ gameState.hintsUsed >= 1
    /\ gameState.hintMove # Null
    /\ gameState.coinBalance < 5
    /\ Len(pendingHints) > 0
    /\ pendingHints[1].attempt = starts
    /\ pendingHints[1].currentLevel = gameState.currentLevel

\* ---- C38 ----

\* C38: an undo or a redo leaves the level, the coin balance, the progress
\* and the hints used as they are, and an undo with an empty undo history,
\* or a redo with an empty redo history, changes nothing.
C38_UndoRedoFrame ==
    [][/\ (UndoMove \/ RedoMove) =>
            /\ gameState'.currentLevel = gameState.currentLevel
            /\ gameState'.coinBalance = gameState.coinBalance
            /\ gameState'.userProgress = gameState.userProgress
            /\ gameState'.hintsUsed = gameState.hintsUsed
       /\ ((UndoMove /\ Len(moveHistory) = 0) \/ (RedoMove /\ Len(redoHistory) = 0))
            => /\ gameState' = gameState
               /\ moveHistory' = moveHistory
               /\ redoHistory' = redoHistory]_vars

\* With a hint bought in this attempt and a level completed before, two
\* pours were made and the second one undone.
C38_Witness_UndoneAfterHint ==
    /\ Len(moveHistory) > 0
    /\ Len(redoHistory) > 0
    /\ gameState.hintsUsed > 0
    /\ gameState.coinBalance > 0
    /\ \E l \in LevelIds : gameState.userProgress[l].completed

====
